---- MODULE Spec2Model ----
(***************************************************************************)
(* Model of the imlib2 JPEG XL loader (imlib2-jxl.c): the decode entry     *)
(* point load() and the encode entry point save().                         *)
(*                                                                         *)
(* The codec (libjxl), the colour engine (lcms2) and the host (imlib2) are *)
(* the environment: every result they hand back is a nondeterministic      *)
(* input of the handler that consumes it.  One behaviour of the model is   *)
(* one call of load() or of save().                                        *)
(***************************************************************************)
EXTENDS Integers, Sequences, FiniteSets, TLC

VARIABLES
    call,          \* which entry point this behaviour runs: "load" | "save"
    strict,        \* TRUE: the codec delivers its events in libjxl's documented order
    load_data,     \* load(): the host wants pixels (TRUE) or only metadata (FALSE)
    sig,           \* what JxlSignatureCheck says about the raw input bytes
    pc,            \* position of the call
    retval,        \* the entry point's result
    diag,          \* the diagnostic printed by RETURN_ERR ("" when none)
    heap,          \* pointer locals and allocation counters of the call
    basic_info,    \* load(): JxlBasicInfo local
    im,            \* the host image: w, h, has_alpha, data
    num_pixels,    \* load(): size_t num_pixels
    pixels_size,   \* load(): size_t pixels_size
    num_channels,  \* load(): pixel_format.num_channels
    icc_size,      \* load(): size_t icc_size
    target,        \* load(): bytes allocated for target, and whether the codec was given it
    trace,         \* results returned so far by JxlDecoderProcessInput
    failed,        \* library calls that reported a failure during the call
    validated,     \* load(): a basic info has passed the dimension check
    color,         \* load(): what the JXL_DEC_COLOR_ENCODING handler did
    sv,            \* save(): its locals and the encoder's configuration
    cls,           \* the colour-profile test taken alone: its operands and its verdict
    px,            \* the pixel reordering loops taken alone: their buffers
    par            \* two calls of load() running in parallel: their locals and handles

vars == << call, strict, load_data, sig, pc, retval, diag, heap, basic_info, im,
           num_pixels, pixels_size, num_channels, icc_size, target, trace, failed,
           validated, color, sv, cls, px, par >>

loadVars == << basic_info, num_pixels, pixels_size, num_channels, icc_size,
               target, trace, validated, color >>

\* the variables of the stand-alone runs of the profile test and the pixel loops
pureVars == << cls, px, par >>

inputVars == << call, strict, load_data, sig >>

(***************************************************************************)
(* Bounds of the model.                                                    *)
(***************************************************************************)
MaxEvents == 2        \* results handled in one call when the codec keeps no order
MaxSmallDim == 2      \* small image dimensions enumerated next to the limits
MaxIccSize == 2       \* ICC profile sizes reported by the codec
MaxOutputCalls == 3   \* calls of JxlEncoderProcessOutput in one save()

(***************************************************************************)
(* Host (imlib2) definitions used by the loader.                           *)
(***************************************************************************)
X_MAX_DIM == 32767

IMAGE_DIMENSIONS_OK(w, h) ==
    /\ w > 0
    /\ h > 0
    /\ w <= X_MAX_DIM
    /\ h <= X_MAX_DIM

(***************************************************************************)
(* Machine integers.  A size is kept as two 16-bit halves, hi * 2^16 + lo, *)
(* so that 32-bit wrap-around and 64-bit products are both exact.          *)
(***************************************************************************)
Half == 256 * 256

Wide(n) == [hi |-> n \div Half, lo |-> n % Half]

\* x * b, not truncated (size_t arithmetic)
WMul(x, b) ==
    [hi |-> x.hi * b + (x.lo * b) \div Half, lo |-> (x.lo * b) % Half]

\* faulty variant: the product is formed in a signed int and keeps 31 bits
U32Signed(x) == [hi |-> x.hi % (Half \div 2), lo |-> x.lo]

\* the value converted to a 32-bit unsigned integer
U32(x) == [hi |-> x.hi % Half, lo |-> x.lo]

\* a * b in 32-bit unsigned arithmetic
Mul32(a, b) == U32(WMul(Wide(a), b))

WZero == Wide(0)

DimValues == {0} \cup (1..MaxSmallDim) \cup {X_MAX_DIM, X_MAX_DIM + 1}

HostDims == (1..MaxSmallDim) \cup {X_MAX_DIM}

Resources == {"dec", "runner", "target", "icc_blob", "enc", "pixels", "jxl_bytes"}

LoadResults == {"LOAD_SUCCESS", "LOAD_FAIL", "LOAD_OOM", "LOAD_BADIMAGE"}

Signatures == {"JXL_SIG_NOT_ENOUGH_BYTES", "JXL_SIG_INVALID",
               "JXL_SIG_CODESTREAM", "JXL_SIG_CONTAINER"}

(***************************************************************************)
(* Heap bookkeeping: ptr is the value of each pointer local ("null", a     *)
(* "live" allocation, or "dangling" after it was released without being    *)
(* reset), acq and rel count acquisitions and releases.                    *)
(***************************************************************************)
EmptyHeap ==
    [ptr |-> [r \in Resources |-> "null"],
     acq |-> [r \in Resources |-> 0],
     rel |-> [r \in Resources |-> 0]]

\* ptr = malloc(..) / ..Create(..) succeeded: the local now names a new allocation
Acquire(h, r) ==
    [ptr |-> [h.ptr EXCEPT ![r] = "live"],
     acq |-> [h.acq EXCEPT ![r] = @ + 1],
     rel |-> h.rel]

\* ptr = malloc(..) / ..Create(..) failed: the local is NULL
AcquireFailed(h, r) == [h EXCEPT !.ptr[r] = "null"]

\* free(ptr) / ..Destroy(ptr): a no-op on NULL; the local keeps its value
Release(h, r) ==
    IF h.ptr[r] = "null"
    THEN h
    ELSE [ptr |-> [h.ptr EXCEPT ![r] = "dangling"],
          acq |-> h.acq,
          rel |-> [h.rel EXCEPT ![r] = @ + 1]]

\* ptr = NULL
SetNull(h, r) == [h EXCEPT !.ptr[r] = "null"]

Live(h, r) == h.acq[r] - h.rel[r]

(***************************************************************************)
(* Initial states: the state at entry of load() or save().                 *)
(***************************************************************************)
NoBasicInfo ==
    [set |-> FALSE, xsize |-> 0, ysize |-> 0, num_color_channels |-> 0, alpha_bits |-> 0]

NoTag == [present |-> FALSE, val |-> 0]

\* save()'s locals before its first statement
SaveEntry ==
    [quality |-> NoTag, compression |-> NoTag,
     calls |-> << >>,
     num_channels |-> 3, alpha_bits |-> 0, num_extra_channels |-> 0,
     uses_original_profile |-> FALSE,
     lossless |-> FALSE, distance_set |-> FALSE, distance99 |-> 0,
     effort_set |-> FALSE, effort |-> 0,
     num_pixels |-> WZero, pixels_size |-> WZero, jxl_bytes_size |-> 0,
     next_out |-> 0, avail_out |-> 0,
     res |-> "none", cursor |-> 0, buf_first |-> 1, written |-> << >>,
     produced |-> 0, sink |-> 0, outputs |-> 0]

\* no JXL_DEC_COLOR_ENCODING result was handled yet
NoColorEvent == [handled |-> FALSE, canonical |-> FALSE, calls |-> << >>]

\* the profile test and the pixel loops are not run on their own
NoClassification == [stage |-> "unused"]

NoPixelRun == [stage |-> "unused"]

NoParallelRun == [stage |-> "unused"]

InitCommon ==
    /\ pc = "entry"
    /\ retval = "LOAD_FAIL"
    /\ diag = ""
    /\ heap = EmptyHeap
    /\ basic_info = NoBasicInfo
    /\ num_pixels = WZero
    /\ pixels_size = WZero
    /\ num_channels = 4
    /\ icc_size = 0
    /\ target = [size |-> WZero, handed |-> FALSE]
    /\ trace = << >>
    /\ failed = {}
    /\ validated = FALSE
    /\ color = NoColorEvent

InitLoad ==
    /\ call = "load"
    /\ load_data \in BOOLEAN
    /\ sig \in Signatures
    /\ im = [w |-> 0, h |-> 0, has_alpha |-> FALSE, data |-> "NULL", written_by |-> {}]
    /\ sv = SaveEntry
    /\ cls = NoClassification
    /\ px = NoPixelRun
    /\ par = NoParallelRun
    /\ InitCommon

\* neither entry point is running: the state around a stand-alone run of the
\* profile test or of the pixel loops
InitIdle ==
    /\ call = "none"
    /\ load_data = FALSE
    /\ sig = "JXL_SIG_CODESTREAM"
    /\ im = [w |-> 0, h |-> 0, has_alpha |-> FALSE, data |-> "NULL", written_by |-> {}]
    /\ sv = SaveEntry
    /\ InitCommon

(***************************************************************************)
(* load(): the epilogue at the label ret, and RETURN_ERR.                  *)
(***************************************************************************)
\* faulty variant: the epilogue forgets the worker pool
LoadRetLeakingRunner(h) ==
    LET h1 == Release(h, "icc_blob")
        h2 == Release(h1, "target")
    IN  IF h2.ptr["dec"] # "null" THEN Release(h2, "dec") ELSE h2

\* ret: free(icc_blob); free(target); if(dec) destroy; if(runner) destroy
LoadRet(h) ==
    LET h1 == Release(h, "icc_blob")
        h2 == Release(h1, "target")
        h3 == IF h2.ptr["dec"] # "null" THEN Release(h2, "dec") ELSE h2
    IN  IF h3.ptr["runner"] # "null" THEN Release(h3, "runner") ELSE h3

\* RETURN_ERR(rv, msg) inside load(): print, set retval, goto ret
LoadReturnErr(rv, msg, fns, h) ==
    /\ retval' = rv
    /\ diag' = msg
    /\ failed' = failed \cup fns
    /\ heap' = LoadRet(h)
    /\ pc' = "returned"

(***************************************************************************)
(* load(): decoder initialisation.                                         *)
(***************************************************************************)
LoadInitSteps ==
    << "JxlDecoderCreate", "JxlThreadParallelRunnerCreate",
       "JxlDecoderSetParallelRunner", "JxlDecoderSubscribeEvents",
       "JxlDecoderSetInput" >>

\* the heap after the initialisation calls that precede the failing one
LoadInitHeap(failAt) ==
    LET h1 == IF failAt = "JxlDecoderCreate"
              THEN AcquireFailed(heap, "dec") ELSE Acquire(heap, "dec")
    IN  IF failAt = "JxlDecoderCreate" THEN h1
        ELSE IF failAt = "JxlThreadParallelRunnerCreate"
             THEN AcquireFailed(h1, "runner") ELSE Acquire(h1, "runner")

LoadInitResult(failAt) ==
    IF failAt = "JxlDecoderSetInput" THEN "LOAD_BADIMAGE" ELSE "LOAD_FAIL"

LoadInit ==
    /\ call = "load"
    /\ pc = "entry"
    /\ \E failAt \in {LoadInitSteps[i] : i \in 1..Len(LoadInitSteps)} \cup {"none"} :
         IF failAt = "none"
         THEN /\ heap' = LoadInitHeap(failAt)
              /\ pc' = "loop"
              /\ UNCHANGED << retval, diag, failed >>
         ELSE LoadReturnErr(LoadInitResult(failAt), "Failed in " \o failAt, {failAt},
                            LoadInitHeap(failAt))
    /\ UNCHANGED << inputVars, pureVars, loadVars, im, sv >>

(***************************************************************************)
(* The codec's side of JxlDecoderProcessInput: the results it may return.  *)
(***************************************************************************)
Seen(ev) == \E i \in 1..Len(trace) : trace[i] = ev

DecoderResults ==
    {"JXL_DEC_BASIC_INFO", "JXL_DEC_COLOR_ENCODING", "JXL_DEC_NEED_IMAGE_OUT_BUFFER",
     "JXL_DEC_NEED_MORE_INPUT", "JXL_DEC_ERROR", "JXL_DEC_SUCCESS", "JXL_DEC_FULL_IMAGE"}

\* libjxl's order for the subscribed events: basic info once, then the colour
\* encoding once, then one output-buffer request, then the full image; an
\* error or a request for more input can come at any point.
InOrder(ev) ==
    CASE ev = "JXL_DEC_BASIC_INFO" -> ~Seen("JXL_DEC_BASIC_INFO")
      [] ev = "JXL_DEC_COLOR_ENCODING" ->
            /\ Seen("JXL_DEC_BASIC_INFO")
            /\ ~Seen("JXL_DEC_COLOR_ENCODING")
            /\ ~Seen("JXL_DEC_NEED_IMAGE_OUT_BUFFER")
      [] ev = "JXL_DEC_NEED_IMAGE_OUT_BUFFER" ->
            /\ Seen("JXL_DEC_BASIC_INFO")
            /\ ~Seen("JXL_DEC_NEED_IMAGE_OUT_BUFFER")
      [] ev = "JXL_DEC_FULL_IMAGE" -> Seen("JXL_DEC_NEED_IMAGE_OUT_BUFFER")
      [] OTHER -> TRUE

\* res = JxlDecoderProcessInput(dec) returns ev
ProcessInput(ev) ==
    /\ call = "load"
    /\ pc = "loop"
    /\ IF strict THEN InOrder(ev) ELSE Len(trace) < MaxEvents
    /\ trace' = Append(trace, ev)

(***************************************************************************)
(* load(): case JXL_DEC_BASIC_INFO.                                        *)
(***************************************************************************)
\* faulty variant: only the width is checked
DimensionsRejectedWidthOnly(xsize, ysize) == ~(xsize > 0 /\ xsize <= X_MAX_DIM)

\* faulty variant: no check at all
DimensionsNeverRejected(xsize, ysize) == FALSE

\* the dimension check of the handler
DimensionsRejected(xsize, ysize) == ~IMAGE_DIMENSIONS_OK(xsize, ysize)

\* faulty variant: the metadata-only request is ignored
MetadataOnlyIgnored == FALSE

\* if (!load_data): only the metadata is wanted
MetadataOnly == ~load_data

\* faulty variant: the colour channels are always taken to be three
ChannelCountAlwaysRGB(num_color_channels, alpha_bits) ==
    3 + (IF alpha_bits > 0 THEN 1 ELSE 0)

\* pixel_format.num_channels as derived from the basic info
ChannelCount(num_color_channels, alpha_bits) ==
    (IF num_color_channels >= 3 THEN 3 ELSE 1) + (IF alpha_bits > 0 THEN 1 ELSE 0)

BasicInfoValues ==
    [set : {TRUE}, xsize : DimValues, ysize : DimValues,
     num_color_channels : {1, 3}, alpha_bits : {0, 8}]

HandleBasicInfo ==
    /\ ProcessInput("JXL_DEC_BASIC_INFO")
    /\ \E getOK \in BOOLEAN, bi \in BasicInfoValues :
         IF ~getOK
         THEN /\ LoadReturnErr("LOAD_BADIMAGE", "Failed in JxlDecoderGetBasicInfo",
                               {"JxlDecoderGetBasicInfo"}, heap)
              /\ UNCHANGED << basic_info, im, num_pixels, num_channels, validated >>
         ELSE /\ basic_info' = bi
              /\ IF DimensionsRejected(bi.xsize, bi.ysize)
                 THEN /\ LoadReturnErr("LOAD_BADIMAGE",
                                       "Dimensions are not supported by imlib2",
                                       {"IMAGE_DIMENSIONS_OK"}, heap)
                      /\ UNCHANGED << im, num_pixels, num_channels, validated >>
                 ELSE /\ validated' = TRUE
                      /\ im' = [im EXCEPT !.w = bi.xsize, !.h = bi.ysize,
                                          !.has_alpha = (bi.alpha_bits > 0)]
                      /\ num_pixels' = Mul32(bi.xsize, bi.ysize)
                      /\ num_channels' = ChannelCount(bi.num_color_channels, bi.alpha_bits)
                      /\ IF MetadataOnly
                         THEN /\ retval' = "LOAD_SUCCESS"
                              /\ heap' = LoadRet(heap)
                              /\ pc' = "returned"
                              /\ UNCHANGED << diag, failed >>
                         ELSE UNCHANGED << retval, diag, failed, heap, pc >>
    /\ UNCHANGED << inputVars, pureVars, color, pixels_size, icc_size, target, sv >>


(***************************************************************************)
(* The colour-profile test of the JXL_DEC_COLOR_ENCODING handler.          *)
(*                                                                         *)
(* A chromaticity is a double.  It is kept as u, its decimal value in      *)
(* units of 10^-5, and e, the error of its binary representation in units  *)
(* of its last place, so u orders before e.  The difference of two doubles *)
(* this close is computed without rounding.                                *)
(***************************************************************************)
\* the double written as the decimal u * 10^-5, with no representation error
Exact(u) == [u |-> u, e |-> 0]

\* v1[i]-v2[i]
DSub(a, b) == [u |-> a.u - b.u, e |-> a.e - b.e]

\* fabs(..)
Abs(d) == IF d.u < 0 \/ (d.u = 0 /\ d.e < 0) THEN [u |-> -d.u, e |-> -d.e] ELSE d

\* a >= b
DGeq(a, b) == a.u > b.u \/ (a.u = b.u /\ a.e >= b.e)

\* the literal .00002: the nearest double lies above 2 * 10^-5, by less than the
\* last place of any chromaticity
Tolerance == [u |-> 2, e |-> 1]

\* faulty variant: only the first component of the vectors is compared
near_equal_first(length, v1, v2) == ~DGeq(Abs(DSub(v1[1], v2[1])), Tolerance)

\* if(fabs(v1[i]-v2[i]) >= .00002) return false; ... return true;
near_equal(length, v1, v2) ==
    \A i \in 1..length : ~DGeq(Abs(DSub(v1[i], v2[i])), Tolerance)

\* JxlColorEncodingSetToSRGB(&srgb, is_gray)
SRGBEncoding(is_gray) ==
    [color_space |-> IF is_gray THEN "JXL_COLOR_SPACE_GRAY" ELSE "JXL_COLOR_SPACE_RGB",
     transfer_function |-> "JXL_TRANSFER_FUNCTION_SRGB",
     primaries |-> "JXL_PRIMARIES_SRGB",
     white_point |-> "JXL_WHITE_POINT_D65",
     primaries_red_xy |-> << Exact(64000), Exact(33000) >>,
     primaries_green_xy |-> << Exact(30000), Exact(60000) >>,
     primaries_blue_xy |-> << Exact(15000), Exact(6000) >>,
     white_point_xy |-> << Exact(31270), Exact(32900) >>]

\* faulty variant: the colour space has to be that of the reference
IsSRGBSameColorSpace(color_enc, srgb) ==
    /\ color_enc.color_space = srgb.color_space
    /\ color_enc.transfer_function = "JXL_TRANSFER_FUNCTION_SRGB"
    /\ \/ color_enc.color_space = "JXL_COLOR_SPACE_GRAY"
       \/ color_enc.primaries = "JXL_PRIMARIES_SRGB"
       \/ /\ color_enc.primaries = "JXL_PRIMARIES_CUSTOM"
          /\ near_equal(2, color_enc.primaries_red_xy, srgb.primaries_red_xy)
          /\ near_equal(2, color_enc.primaries_green_xy, srgb.primaries_green_xy)
          /\ near_equal(2, color_enc.primaries_blue_xy, srgb.primaries_blue_xy)
    /\ \/ color_enc.white_point = "JXL_WHITE_POINT_D65"
       \/ /\ color_enc.white_point = "JXL_WHITE_POINT_CUSTOM"
          /\ near_equal(2, color_enc.white_point_xy, srgb.white_point_xy)

\* faulty variant: the primaries are tested for gray profiles too
IsSRGBGrayPrimaries(color_enc, srgb) ==
    /\ \/ color_enc.color_space = "JXL_COLOR_SPACE_RGB"
       \/ color_enc.color_space = "JXL_COLOR_SPACE_GRAY"
    /\ color_enc.transfer_function = "JXL_TRANSFER_FUNCTION_SRGB"
    /\ \/ color_enc.primaries = "JXL_PRIMARIES_SRGB"
       \/ /\ color_enc.primaries = "JXL_PRIMARIES_CUSTOM"
          /\ near_equal(2, color_enc.primaries_red_xy, srgb.primaries_red_xy)
          /\ near_equal(2, color_enc.primaries_green_xy, srgb.primaries_green_xy)
          /\ near_equal(2, color_enc.primaries_blue_xy, srgb.primaries_blue_xy)
    /\ \/ color_enc.white_point = "JXL_WHITE_POINT_D65"
       \/ /\ color_enc.white_point = "JXL_WHITE_POINT_CUSTOM"
          /\ near_equal(2, color_enc.white_point_xy, srgb.white_point_xy)

\* the condition of the if statement that skips the ICC extraction
IsSRGB(color_enc, srgb) ==
    /\ \/ color_enc.color_space = "JXL_COLOR_SPACE_RGB"
       \/ color_enc.color_space = "JXL_COLOR_SPACE_GRAY"
    /\ color_enc.transfer_function = "JXL_TRANSFER_FUNCTION_SRGB"
    /\ \/ color_enc.color_space = "JXL_COLOR_SPACE_GRAY"
       \/ color_enc.primaries = "JXL_PRIMARIES_SRGB"
       \/ /\ color_enc.primaries = "JXL_PRIMARIES_CUSTOM"
          /\ near_equal(2, color_enc.primaries_red_xy, srgb.primaries_red_xy)
          /\ near_equal(2, color_enc.primaries_green_xy, srgb.primaries_green_xy)
          /\ near_equal(2, color_enc.primaries_blue_xy, srgb.primaries_blue_xy)
    /\ \/ color_enc.white_point = "JXL_WHITE_POINT_D65"
       \/ /\ color_enc.white_point = "JXL_WHITE_POINT_CUSTOM"
          /\ near_equal(2, color_enc.white_point_xy, srgb.white_point_xy)

ColorSpaces == {"JXL_COLOR_SPACE_RGB", "JXL_COLOR_SPACE_GRAY", "JXL_COLOR_SPACE_XYB"}

TransferFunctions == {"JXL_TRANSFER_FUNCTION_SRGB", "JXL_TRANSFER_FUNCTION_LINEAR"}

PrimariesTags == {"JXL_PRIMARIES_SRGB", "JXL_PRIMARIES_CUSTOM", "JXL_PRIMARIES_P3"}

WhitePointTags == {"JXL_WHITE_POINT_D65", "JXL_WHITE_POINT_CUSTOM", "JXL_WHITE_POINT_E"}

\* structured profiles the codec may report to the handler
ColorEncodings ==
    [color_space : ColorSpaces,
     transfer_function : TransferFunctions,
     primaries : PrimariesTags,
     white_point : WhitePointTags,
     primaries_red_xy : {<< Exact(64000), Exact(33000) >>, << Exact(64003), Exact(33000) >>},
     primaries_green_xy : {<< Exact(30000), Exact(60000) >>},
     primaries_blue_xy : {<< Exact(15000), Exact(6000) >>},
     white_point_xy : {<< Exact(31270), Exact(32900) >>, << Exact(31270), Exact(32901) >>}]

(***************************************************************************)
(* load(): case JXL_DEC_COLOR_ENCODING.                                    *)
(***************************************************************************)
\* the failed ICC fetch: free(icc_blob); icc_blob = NULL
DropIccBlob(h) == SetNull(Release(h, "icc_blob"), "icc_blob")

Noted(ok, fn) == IF ok THEN {} ELSE {fn}

\* the handler's calls so far, with one more
Called(c, fn) == [c EXCEPT !.calls = Append(@, fn)]

\* from JxlDecoderGetICCProfileSize on: the two-step ICC extraction
ExtractICC(noted, c) ==
    \E sizeOK \in BOOLEAN :
      LET c1 == Called(c, "JxlDecoderGetICCProfileSize")
      IN  IF ~sizeOK
          THEN /\ icc_size' = 0
               /\ color' = c1
               /\ failed' = failed \cup noted \cup {"JxlDecoderGetICCProfileSize"}
               /\ UNCHANGED << retval, diag, heap, pc >>
          ELSE \E size \in 0..MaxIccSize, mallocOK \in BOOLEAN :
                 LET c2 == Called(c1, "malloc")
                     c3 == Called(c2, "JxlDecoderGetColorAsICCProfile")
                 IN  IF ~mallocOK
                     THEN /\ icc_size' = size
                          /\ color' = c2
                          /\ LoadReturnErr("LOAD_OOM", "Failed to allocate for ICC profile",
                                           noted \cup {"malloc"},
                                           AcquireFailed(heap, "icc_blob"))
                     ELSE \E fetchOK \in BOOLEAN :
                            IF ~fetchOK
                            THEN /\ icc_size' = 0
                                 /\ color' = c3
                                 /\ heap' = DropIccBlob(Acquire(heap, "icc_blob"))
                                 /\ failed' = failed \cup noted
                                                \cup {"JxlDecoderGetColorAsICCProfile"}
                                 /\ UNCHANGED << retval, diag, pc >>
                            ELSE /\ icc_size' = size
                                 /\ color' = c3
                                 /\ heap' = Acquire(heap, "icc_blob")
                                 /\ failed' = failed \cup noted
                                 /\ UNCHANGED << retval, diag, pc >>

\* /*is_gray=*/basic_info.num_color_channels == 1
IsGray(num_color_channels) == num_color_channels = 1

\* is_gray as the handler computes it; an indeterminate value before the
\* basic info was read
IsGrayChoices ==
    IF basic_info.set THEN {IsGray(basic_info.num_color_channels)} ELSE BOOLEAN

\* faulty variant: the ICC profile is fetched even when the encoded profile is sRGB
SkipsExtractionNever(encOK, is_srgb) == FALSE

\* the encoded profile was read and passed the test: break before the ICC calls
SkipsExtraction(encOK, is_srgb) == encOK /\ is_srgb

HandleColorEncoding ==
    /\ ProcessInput("JXL_DEC_COLOR_ENCODING")
    /\ \E is_gray \in IsGrayChoices, setPrefOK \in BOOLEAN, encOK \in BOOLEAN :
         LET srgb == SRGBEncoding(is_gray)
             noted == Noted(setPrefOK, "JxlDecoderSetPreferredColorProfile")
                        \cup Noted(encOK, "JxlDecoderGetColorAsEncodedProfile")
         IN  \E is_srgb \in {IsSRGB(ce, srgb) : ce \in ColorEncodings} :
               LET c == [handled |-> TRUE,
                         canonical |-> encOK /\ is_srgb,
                         calls |-> << "JxlDecoderSetPreferredColorProfile",
                                      "JxlDecoderGetColorAsEncodedProfile" >>]
               IN  IF SkipsExtraction(encOK, is_srgb)
                   THEN /\ failed' = failed \cup noted
                        /\ color' = c
                        /\ UNCHANGED << retval, diag, heap, pc, icc_size >>
                   ELSE ExtractICC(noted, c)
    /\ UNCHANGED << inputVars, pureVars, basic_info, im, num_pixels, pixels_size,
                    num_channels, target, validated, sv >>

(***************************************************************************)
(* load(): case JXL_DEC_NEED_IMAGE_OUT_BUFFER.                             *)
(***************************************************************************)
\* basic_info as the handler reads it: indeterminate before the basic info was read
BasicInfoRead == IF basic_info.set THEN {basic_info} ELSE BasicInfoValues

\* (size_t)basic_info.xsize * basic_info.ysize * pixel_format.num_channels
ExpectedPixelsSize(bi, nch) == WMul(WMul(Wide(bi.xsize), bi.ysize), nch)

\* faulty variant: the reported size is accepted as it is
PixelsSizeMismatchNever(size, bi, nch) == FALSE

\* the sanity check of the handler
PixelsSizeMismatch(size, bi, nch) == size # ExpectedPixelsSize(bi, nch)

\* sizes JxlDecoderImageOutBufferSize may report
ReportedSizes(bi) == {WMul(WMul(Wide(bi.xsize), bi.ysize), c) : c \in 1..4}

HandleNeedImageOutBuffer ==
    /\ ProcessInput("JXL_DEC_NEED_IMAGE_OUT_BUFFER")
    /\ \E bi \in BasicInfoRead, sizeOK \in BOOLEAN :
         IF ~sizeOK
         THEN /\ LoadReturnErr("LOAD_FAIL", "Failed in JxlDecoderImageOutBufferSize",
                               {"JxlDecoderImageOutBufferSize"}, heap)
              /\ UNCHANGED << pixels_size, target >>
         ELSE \E reported \in ReportedSizes(bi) :
                /\ pixels_size' = reported
                /\ IF PixelsSizeMismatch(reported, bi, num_channels)
                   THEN /\ LoadReturnErr("LOAD_FAIL", "Pixel buffer size is not as expected",
                                         {"pixels_size"}, heap)
                        /\ UNCHANGED target
                   ELSE \E mallocOK \in BOOLEAN :
                          IF ~mallocOK
                          THEN /\ LoadReturnErr("LOAD_OOM", "Failed to allocate for pixels",
                                                {"malloc"}, AcquireFailed(heap, "target"))
                               /\ UNCHANGED target
                          ELSE \E setOK \in BOOLEAN :
                                 IF ~setOK
                                 THEN /\ LoadReturnErr("LOAD_FAIL",
                                                       "Failed in JxlDecoderSetImageOutBuffer",
                                                       {"JxlDecoderSetImageOutBuffer"},
                                                       Acquire(heap, "target"))
                                      /\ target' = [size |-> reported, handed |-> FALSE]
                                 ELSE /\ heap' = Acquire(heap, "target")
                                      /\ target' = [size |-> reported, handed |-> TRUE]
                                      /\ UNCHANGED << retval, diag, failed, pc >>
    /\ UNCHANGED << inputVars, pureVars, color, basic_info, im, num_pixels, num_channels, icc_size,
                    validated, sv >>

(***************************************************************************)
(* load(): the fatal cases and the end of the loop.                        *)
(***************************************************************************)
\* faulty variant: the truncated input is not treated as fatal
HandleNeedMoreInputContinues ==
    /\ ProcessInput("JXL_DEC_NEED_MORE_INPUT")
    /\ UNCHANGED << inputVars, pureVars, color, retval, diag, heap, failed, pc, basic_info, im,
                    num_pixels, pixels_size, num_channels, icc_size, target,
                    validated, sv >>

HandleNeedMoreInput ==
    /\ ProcessInput("JXL_DEC_NEED_MORE_INPUT")
    /\ LoadReturnErr("LOAD_BADIMAGE", "Input truncated", {"JxlDecoderProcessInput"}, heap)
    /\ UNCHANGED << inputVars, pureVars, color, basic_info, im, num_pixels, pixels_size, num_channels,
                    icc_size, target, validated, sv >>

\* faulty variant: the container signature is forgotten
ErrorTextCodestreamOnly(s) ==
    IF s = "JXL_SIG_CODESTREAM"
    THEN "Error while decoding: corrupted file?"
    ELSE "Error while decoding: not a JPEG XL file!"

\* the text chosen from JxlSignatureCheck's answer
ErrorText(s) ==
    IF s = "JXL_SIG_CODESTREAM" \/ s = "JXL_SIG_CONTAINER"
    THEN "Error while decoding: corrupted file?"
    ELSE "Error while decoding: not a JPEG XL file!"

HandleError ==
    /\ ProcessInput("JXL_DEC_ERROR")
    /\ LoadReturnErr("LOAD_BADIMAGE", ErrorText(sig), {"JxlDecoderProcessInput"}, heap)
    /\ UNCHANGED << inputVars, pureVars, color, basic_info, im, num_pixels, pixels_size, num_channels,
                    icc_size, target, validated, sv >>

\* default: any other result, here JXL_DEC_SUCCESS
HandleDefault ==
    /\ ProcessInput("JXL_DEC_SUCCESS")
    /\ LoadReturnErr("LOAD_FAIL", "Unexpected result from JxlDecoderProcessInput",
                     {"JxlDecoderProcessInput"}, heap)
    /\ UNCHANGED << inputVars, pureVars, color, basic_info, im, num_pixels, pixels_size, num_channels,
                    icc_size, target, validated, sv >>

\* faulty variant: the loop goes on after JXL_DEC_FULL_IMAGE
HandleFullImageStaysInLoop ==
    /\ ProcessInput("JXL_DEC_FULL_IMAGE")
    /\ UNCHANGED << inputVars, pureVars, color, pc, retval, diag, heap, failed, basic_info, im,
                    num_pixels, pixels_size, num_channels, icc_size, target, validated, sv >>

\* JXL_DEC_FULL_IMAGE ends the while loop
HandleFullImage ==
    /\ ProcessInput("JXL_DEC_FULL_IMAGE")
    /\ pc' = "convert"
    /\ UNCHANGED << inputVars, pureVars, color, retval, diag, heap, failed, basic_info, im, num_pixels,
                    pixels_size, num_channels, icc_size, target, validated, sv >>


(***************************************************************************)
(* load(): after the loop: the host buffer and the pixel conversion.       *)
(***************************************************************************)
\* __imlib_AllocateData(im): the host allocates im->data for im->w x im->h
AllocateDataOK(w, h, allocOK) == w > 0 /\ h > 0 /\ allocOK

CmsSteps ==
    << "cmsCreateContext", "cmsOpenProfileFromMemTHR", "cmsCreate_sRGBProfileTHR",
       "cmsCreateTransformTHR" >>

CmsFailures == {CmsSteps[i] : i \in 1..Len(CmsSteps)} \cup {"none"}

\* the return value of convert_to_srgb: 0 on success
convert_to_srgb(cmsFailAt, nch) ==
    IF cmsFailAt # "none" \/ nch \notin 1..4 THEN -1 ELSE 0

\* faulty variant: a failed transform fails the call
FinalResultPropagating(transform_failed) ==
    IF transform_failed THEN "LOAD_FAIL" ELSE "LOAD_SUCCESS"

\* retval = LOAD_SUCCESS at the end of load(), whatever the transform returned
FinalResult(transform_failed) == "LOAD_SUCCESS"

\* faulty variant: the plain pass is skipped whenever a profile was retained
PlainPassOnlyWithoutProfile(color_converted) == icc_size = 0

\* faulty variant: the plain pass runs after a successful transform as well
PlainPassAlways(color_converted) == TRUE

\* if(!color_converted): the plain reordering pass runs
PlainPass(color_converted) == ~color_converted

LoadConvert ==
    /\ call = "load"
    /\ pc = "convert"
    /\ \E allocOK \in BOOLEAN :
         IF ~AllocateDataOK(im.w, im.h, allocOK)
         THEN /\ LoadReturnErr("LOAD_OOM", "Failed in __imlib_AllocateData",
                               {"__imlib_AllocateData"}, heap)
              /\ UNCHANGED im
         ELSE \/ \* target is read through a pointer that names no buffer
                 /\ num_pixels # WZero
                 /\ heap.ptr["target"] # "live"
                 /\ pc' = "crashed"
                 /\ im' = [im EXCEPT !.data = "unwritten"]
                 /\ UNCHANGED << retval, diag, heap, failed >>
              \/ \E cmsFailAt \in (IF icc_size > 0 THEN CmsFailures ELSE {"none"}) :
                   LET attempted == icc_size > 0
                       color_converted ==
                           attempted /\ convert_to_srgb(cmsFailAt, num_channels) = 0
                       transform_failed == attempted /\ ~color_converted
                   IN  /\ im' = [im EXCEPT !.data =
                                    IF color_converted THEN "cms"
                                    ELSE IF PlainPass(color_converted) THEN "plain"
                                    ELSE "unwritten",
                                              !.written_by =
                                    (IF color_converted THEN {"cms"} ELSE {})
                                    \cup (IF PlainPass(color_converted)
                                          THEN {"plain"} ELSE {})]
                       /\ failed' = failed \cup
                                      (IF transform_failed THEN {"convert_to_srgb"} ELSE {})
                       /\ retval' = FinalResult(transform_failed)
                       /\ heap' = LoadRet(heap)
                       /\ pc' = "returned"
                       /\ UNCHANGED diag
    /\ UNCHANGED << inputVars, pureVars, loadVars, sv >>


(***************************************************************************)
(* save(): entry state, epilogue and RETURN_ERR.                           *)
(***************************************************************************)
QualityValues == {-1, 0, 50, 98, 99, 100}

CompressionValues == {-1, 0, 1, 5, 9, 12}

Tags(values) == {NoTag} \cup [present : {TRUE}, val : values]

InitSave ==
    /\ call = "save"
    /\ load_data = FALSE
    /\ sig = "JXL_SIG_NOT_ENOUGH_BYTES"
    /\ \E w \in HostDims, h \in HostDims, a \in BOOLEAN :
         im = [w |-> w, h |-> h, has_alpha |-> a, data |-> "pixels", written_by |-> {}]
    /\ cls = NoClassification
    /\ px = NoPixelRun
    /\ par = NoParallelRun
    /\ InitCommon
    /\ \E q \in Tags(QualityValues), c \in Tags(CompressionValues) :
         sv = [SaveEntry EXCEPT !.quality = q, !.compression = c]

\* faulty variant: the epilogue forgets the encoded-bytes buffer
SaveRetLeakingBytes(h) ==
    LET h1 == Release(h, "pixels")
        h3 == IF h1.ptr["enc"] # "null" THEN Release(h1, "enc") ELSE h1
    IN  IF h3.ptr["runner"] # "null" THEN Release(h3, "runner") ELSE h3

\* ret: free(pixels); free(jxl_bytes); if(enc) destroy; if(runner) destroy
SaveRet(h) ==
    LET h1 == Release(h, "pixels")
        h2 == Release(h1, "jxl_bytes")
        h3 == IF h2.ptr["enc"] # "null" THEN Release(h2, "enc") ELSE h2
    IN  IF h3.ptr["runner"] # "null" THEN Release(h3, "runner") ELSE h3

\* RETURN_ERR(rv, msg) inside save()
SaveReturnErr(rv, msg, fns, h) ==
    /\ retval' = rv
    /\ diag' = msg
    /\ failed' = failed \cup fns
    /\ heap' = SaveRet(h)
    /\ pc' = "returned"

(***************************************************************************)
(* save(): encoder initialisation.                                         *)
(***************************************************************************)
IndexOf(seq, x) == CHOOSE i \in 1..Len(seq) : seq[i] = x

\* the calls made when the call failAt fails: everything up to and including it
Performed(steps, failAt) ==
    IF failAt = "none" THEN steps ELSE SubSeq(steps, 1, IndexOf(steps, failAt))

SaveInitSteps ==
    << "JxlEncoderCreate", "JxlThreadParallelRunnerCreate",
       "JxlEncoderSetParallelRunner", "JxlEncoderFrameSettingsCreate" >>

SaveInitHeap(failAt) ==
    LET h1 == IF failAt = "JxlEncoderCreate"
              THEN AcquireFailed(heap, "enc") ELSE Acquire(heap, "enc")
    IN  IF failAt = "JxlEncoderCreate" THEN h1
        ELSE IF failAt = "JxlThreadParallelRunnerCreate"
             THEN AcquireFailed(h1, "runner") ELSE Acquire(h1, "runner")

SaveInit ==
    /\ call = "save"
    /\ pc = "entry"
    /\ \E failAt \in {SaveInitSteps[i] : i \in 1..Len(SaveInitSteps)} \cup {"none"} :
         /\ sv' = [sv EXCEPT !.calls = Performed(SaveInitSteps, failAt)]
         /\ IF failAt = "none"
            THEN /\ heap' = SaveInitHeap(failAt)
                 /\ pc' = "configure"
                 /\ UNCHANGED << retval, diag, failed >>
            ELSE SaveReturnErr("LOAD_FAIL", "Failed in " \o failAt, {failAt},
                               SaveInitHeap(failAt))
    /\ UNCHANGED << inputVars, pureVars, loadVars, im >>

(***************************************************************************)
(* save(): from the pixel format to the allocation of the output buffer.   *)
(***************************************************************************)
\* faulty variant: a negative quality is not raised to 0
ClampQualityUpperOnly(val) == IF val > 99 THEN 99 ELSE val

\* the quality tag clamped to [0, max_quality]
ClampQuality(val) == IF val < 0 THEN 0 ELSE IF val > 99 THEN 99 ELSE val

\* faulty variant: the compression is clamped to the range [0, 9] of other loaders
ClampCompressionFromZero(val) == IF val < 0 THEN 0 ELSE IF val > 9 THEN 9 ELSE val

\* the compression tag clamped to [1, 9]
ClampCompression(val) == IF val < 1 THEN 1 ELSE IF val > 9 THEN 9 ELSE val

\* faulty variant: the division is done on integers
Distance99IntegerDivision(quality) == 99 * (15 - (quality * 15) \div 99)

\* 99 * (15 - (quality * 15 / (float)max_quality)), the distance as a multiple of 1/99
Distance99(quality) == 99 * 15 - quality * 15

\* faulty variant: lossless coding is never asked for
LosslessNever(q) == FALSE

Lossless(q) == q.present /\ ClampQuality(q.val) = 99

\* faulty variant: the original profile is kept for lossy images too
UsesOriginalProfileAlways(q) == TRUE

\* basic_info.uses_original_profile: JXL_FALSE, set to JXL_TRUE in the
\* lossless branch of the quality tag
UsesOriginalProfile(q) == Lossless(q)

\* faulty variant: the colour encoding is set before the basic info
ConfigStepsColorBeforeBasicInfo(q, c, level10) ==
    (IF Lossless(q) THEN << "JxlEncoderSetFrameLossless" >>
     ELSE IF q.present THEN << "JxlEncoderSetFrameDistance" >> ELSE << >>)
    \o (IF c.present THEN << "JxlEncoderFrameSettingsSetOption" >> ELSE << >>)
    \o << "JxlEncoderSetColorEncoding", "JxlEncoderSetBasicInfo",
          "JxlEncoderGetRequiredCodestreamLevel" >>
    \o (IF level10 THEN << "JxlEncoderSetCodestreamLevel" >> ELSE << >>)
    \o << "malloc(pixels_size)",
          "JxlEncoderAddImageFrame", "JxlEncoderCloseInput", "malloc(jxl_bytes_size)" >>

\* faulty variant: the effort is only set inside the quality branch
ConfigStepsEffortInQualityBranch(q, c, level10) ==
    (IF Lossless(q) THEN << "JxlEncoderSetFrameLossless" >>
     ELSE IF q.present THEN << "JxlEncoderSetFrameDistance" >> ELSE << >>)
    \o (IF c.present /\ q.present THEN << "JxlEncoderFrameSettingsSetOption" >> ELSE << >>)
    \o << "JxlEncoderSetBasicInfo", "JxlEncoderGetRequiredCodestreamLevel" >>
    \o (IF level10 THEN << "JxlEncoderSetCodestreamLevel" >> ELSE << >>)
    \o << "JxlEncoderSetColorEncoding", "malloc(pixels_size)",
          "JxlEncoderAddImageFrame", "JxlEncoderCloseInput", "malloc(jxl_bytes_size)" >>

\* the calls save() makes between the frame settings and the output loop,
\* in program order
ConfigSteps(q, c, level10) ==
    (IF Lossless(q) THEN << "JxlEncoderSetFrameLossless" >>
     ELSE IF q.present THEN << "JxlEncoderSetFrameDistance" >> ELSE << >>)
    \o (IF c.present THEN << "JxlEncoderFrameSettingsSetOption" >> ELSE << >>)
    \o << "JxlEncoderSetBasicInfo", "JxlEncoderGetRequiredCodestreamLevel" >>
    \o (IF level10 THEN << "JxlEncoderSetCodestreamLevel" >> ELSE << >>)
    \o << "JxlEncoderSetColorEncoding", "malloc(pixels_size)",
          "JxlEncoderAddImageFrame", "JxlEncoderCloseInput", "malloc(jxl_bytes_size)" >>

\* calls that cannot fail the call
Infallible == {"JxlEncoderGetRequiredCodestreamLevel", "JxlEncoderCloseInput"}

\* a call was made and reported success
Succeeded(done, failAt, fn) ==
    /\ \E i \in 1..Len(done) : done[i] = fn
    /\ fn # failAt

\* const size_t pixels_size = pixel_format.num_channels * im->w * im->h
SavePixelsSize(nch, w, h) == U32(WMul(Mul32(nch, w), h))

\* pixels_size / 16, but at least 8*1024
Div16(x) == x.hi * (Half \div 16) + x.lo \div 16

OutputBufferSize(size) == IF Div16(size) < 8 * 1024 THEN 8 * 1024 ELSE Div16(size)

\* faulty variant: the alpha channel is always packed
SaveNumChannelsAlways4(has_alpha) == 4

\* pixel_format.num_channels: 3, or 4 if(im->has_alpha)
SaveNumChannels(has_alpha) == IF has_alpha THEN 4 ELSE 3

\* basic_info.alpha_bits
SaveAlphaBits(has_alpha) == IF has_alpha THEN 8 ELSE 0

\* basic_info.num_extra_channels
SaveExtraChannels(has_alpha) == IF has_alpha THEN 1 ELSE 0

ConfigResult(failAt) ==
    IF failAt = "malloc(pixels_size)" \/ failAt = "malloc(jxl_bytes_size)"
    THEN "LOAD_OOM" ELSE "LOAD_FAIL"

SaveConfigure ==
    /\ call = "save"
    /\ pc = "configure"
    /\ \E level10 \in BOOLEAN :
         LET steps == ConfigSteps(sv.quality, sv.compression, level10)
         IN  \E failAt \in ({steps[i] : i \in 1..Len(steps)} \ Infallible) \cup {"none"} :
               LET done == Performed(steps, failAt)
                   nch == SaveNumChannels(im.has_alpha)
                   psize == SavePixelsSize(nch, im.w, im.h)
                   bsize == OutputBufferSize(psize)
                   gotPixels == Succeeded(done, failAt, "malloc(pixels_size)")
                   gotBytes == Succeeded(done, failAt, "malloc(jxl_bytes_size)")
                   h1 == IF gotPixels THEN Acquire(heap, "pixels") ELSE heap
                   h2 == IF gotBytes THEN Acquire(h1, "jxl_bytes") ELSE h1
               IN  /\ sv' = [sv EXCEPT
                          !.calls = sv.calls \o done,
                          !.num_channels = nch,
                          !.alpha_bits = SaveAlphaBits(im.has_alpha),
                          !.num_extra_channels = SaveExtraChannels(im.has_alpha),
                          !.uses_original_profile = UsesOriginalProfile(sv.quality),
                          !.lossless = Succeeded(done, failAt, "JxlEncoderSetFrameLossless"),
                          !.distance_set =
                              Succeeded(done, failAt, "JxlEncoderSetFrameDistance"),
                          !.distance99 =
                              IF Succeeded(done, failAt, "JxlEncoderSetFrameDistance")
                              THEN Distance99(ClampQuality(sv.quality.val)) ELSE 0,
                          !.effort_set =
                              Succeeded(done, failAt, "JxlEncoderFrameSettingsSetOption"),
                          !.effort =
                              IF Succeeded(done, failAt, "JxlEncoderFrameSettingsSetOption")
                              THEN ClampCompression(sv.compression.val) ELSE 0,
                          !.num_pixels = Mul32(im.w, im.h),
                          !.pixels_size = psize,
                          !.jxl_bytes_size = IF gotBytes THEN bsize ELSE 0,
                          !.next_out = 0,
                          !.avail_out = IF gotBytes THEN bsize ELSE 0]
                   /\ IF failAt = "none"
                      THEN /\ heap' = h2
                           /\ pc' = "output"
                           /\ UNCHANGED << retval, diag, failed >>
                      ELSE SaveReturnErr(ConfigResult(failAt), "Failed in " \o failAt,
                                         {failAt}, h2)
    /\ UNCHANGED << inputVars, pureVars, loadVars, im >>

(***************************************************************************)
(* save(): the output loop and the final write.                            *)
(***************************************************************************)
EncoderResults == {"JXL_ENC_SUCCESS", "JXL_ENC_NEED_MORE_OUTPUT", "JXL_ENC_ERROR"}

\* how far one JxlEncoderProcessOutput call may advance the cursor
Advances(avail) == {0, 1, avail} \cap 0..avail

\* what fwrite may return short of n when it fails
ShortWrites(n) == {0, n - 1} \cap 0..(n - 1)

\* faulty variant: the stall is never detected
StalledNever(next_out) == FALSE

\* if(next_out == jxl_bytes): the cursor is at the start of the buffer
Stalled(next_out) == next_out = 0

\* faulty variant: the whole buffer is flushed
FlushLengthWholeBuffer(jxl_bytes_size, avail_out) == jxl_bytes_size

\* jxl_bytes_size - avail_out: the length handed to fwrite
FlushLength(jxl_bytes_size, avail_out) == jxl_bytes_size - avail_out

SaveProcessOutput ==
    /\ call = "save"
    /\ pc = "output"
    /\ sv.outputs < MaxOutputCalls
    /\ \E res \in EncoderResults, k \in Advances(sv.avail_out) :
         LET next_out == sv.next_out + k
             avail_out == sv.avail_out - k
             n == FlushLength(sv.jxl_bytes_size, avail_out)
             \* the encoder's bytes are numbered in the order it produces
             \* them; buf_first is the number of the byte at jxl_bytes[0]
             first == IF sv.next_out = 0 /\ k > 0 THEN sv.produced + 1
                      ELSE sv.buf_first
             s1 == [sv EXCEPT !.outputs = @ + 1, !.produced = @ + k,
                              !.next_out = next_out, !.avail_out = avail_out,
                              !.res = res, !.cursor = next_out,
                              !.buf_first = first,
                              !.calls = Append(@, "JxlEncoderProcessOutput")]
             \* fwrite(jxl_bytes, 1, n, out) putting m bytes into the sink
             put(m) == [s1 EXCEPT !.sink = @ + m,
                                  !.written = IF m > 0 THEN Append(@, << first, m >>)
                                              ELSE @,
                                  !.calls = Append(@, "fwrite")]
         IN  IF res = "JXL_ENC_ERROR"
             THEN /\ sv' = s1
                  /\ SaveReturnErr("LOAD_FAIL", "Error during encoding",
                                   {"JxlEncoderProcessOutput"}, heap)
             ELSE IF res = "JXL_ENC_NEED_MORE_OUTPUT" /\ Stalled(next_out)
             THEN /\ sv' = s1
                  /\ SaveReturnErr("LOAD_FAIL", "Encoding stalled",
                                   {"JxlEncoderProcessOutput"}, heap)
             ELSE \/ \* fwrite wrote all n bytes
                     /\ IF res = "JXL_ENC_SUCCESS"
                        THEN /\ sv' = put(n)
                             /\ retval' = "LOAD_SUCCESS"
                             /\ heap' = SaveRet(heap)
                             /\ pc' = "returned"
                             /\ UNCHANGED << diag, failed >>
                        ELSE /\ sv' = [put(n) EXCEPT !.next_out = 0,
                                                     !.avail_out = sv.jxl_bytes_size]
                             /\ UNCHANGED << retval, diag, heap, failed, pc >>
                  \/ \* fwrite came back short
                     \E m \in ShortWrites(n) :
                       /\ sv' = put(m)
                       /\ SaveReturnErr("LOAD_FAIL", "Failed to write", {"fwrite"}, heap)
    /\ UNCHANGED << inputVars, pureVars, loadVars, im >>

(***************************************************************************)
(* The specifications.                                                     *)
(***************************************************************************)
Init ==
    /\ strict = TRUE
    /\ (InitLoad \/ InitSave)

\* the same program driven by a codec that may return its results in any order
InitAnyOrder ==
    /\ strict = FALSE
    /\ InitLoad

Next ==
    \/ LoadInit
    \/ HandleBasicInfo
    \/ HandleColorEncoding
    \/ HandleNeedImageOutBuffer
    \/ HandleNeedMoreInput
    \/ HandleError
    \/ HandleDefault
    \/ HandleFullImage
    \/ LoadConvert
    \/ SaveInit
    \/ SaveConfigure
    \/ SaveProcessOutput

Spec == Init /\ [][Next]_vars

NextLoad ==
    \/ LoadInit
    \/ HandleBasicInfo
    \/ HandleColorEncoding
    \/ HandleNeedImageOutBuffer
    \/ HandleNeedMoreInput
    \/ HandleError
    \/ HandleDefault
    \/ HandleFullImage
    \/ LoadConvert

SpecAnyOrder == InitAnyOrder /\ [][NextLoad]_vars

(***************************************************************************)
(* The colour-profile test run on its own: the operands are drawn, then    *)
(* the test is applied to them.                                            *)
(***************************************************************************)
MaxDelta == 3   \* largest distance, in units of 10^-5, of a chromaticity from sRGB's

\* distances of one chromaticity component from the reference's
Perturbations == [u : (-MaxDelta)..MaxDelta, e : -1..1]

\* the vector xy with its component k moved by p
Shifted(xy, k, p) == [xy EXCEPT ![k] = [u |-> @.u + p.u, e |-> @.e + p.e]]

\* a structured profile: sRGB's chromaticities with component k of one primary
\* moved by p and component wk of the white point moved by wq
ProfileNear(cs, tf, pr, wp, prim, k, p, wk, wq) ==
    LET ref == SRGBEncoding(FALSE)
    IN  [color_space |-> cs,
         transfer_function |-> tf,
         primaries |-> pr,
         white_point |-> wp,
         primaries_red_xy |->
             IF prim = "red" THEN Shifted(ref.primaries_red_xy, k, p)
             ELSE ref.primaries_red_xy,
         primaries_green_xy |->
             IF prim = "green" THEN Shifted(ref.primaries_green_xy, k, p)
             ELSE ref.primaries_green_xy,
         primaries_blue_xy |->
             IF prim = "blue" THEN Shifted(ref.primaries_blue_xy, k, p)
             ELSE ref.primaries_blue_xy,
         white_point_xy |-> Shifted(ref.white_point_xy, wk, wq)]

\* srgb before JxlColorEncodingSetToSRGB has filled it
NoReference == [color_space |-> "unset"]

\* the operands of the test: color_enc as JxlDecoderGetColorAsEncodedProfile may
\* fill it, with at most one of the two moved components carrying a
\* representation error, and basic_info.num_color_channels
InitClassifier ==
    /\ strict = TRUE
    /\ InitIdle
    /\ px = NoPixelRun
    /\ par = NoParallelRun
    /\ \E cs \in ColorSpaces, tf \in TransferFunctions, pr \in PrimariesTags,
          wp \in WhitePointTags, prim \in {"red", "green", "blue"}, k \in 1..2,
          p \in Perturbations, wk \in 1..2, wq \in Perturbations, ncc \in {1, 3} :
         /\ p.e = 0 \/ wq.e = 0
         /\ cls = [stage |-> "operands",
                   color_enc |-> ProfileNear(cs, tf, pr, wp, prim, k, p, wk, wq),
                   num_color_channels |-> ncc,
                   srgb |-> NoReference,
                   canonical |-> FALSE]

\* JxlColorEncodingSetToSRGB and the if statement of the handler, applied to
\* the operands
Classify ==
    /\ cls.stage = "operands"
    /\ LET srgb == SRGBEncoding(IsGray(cls.num_color_channels))
       IN  cls' = [cls EXCEPT !.stage = "classified",
                              !.srgb = srgb,
                              !.canonical = IsSRGB(cls.color_enc, srgb)]
    /\ UNCHANGED << inputVars, loadVars, pc, retval, diag, heap, im, failed, sv, px, par >>

NextClassifier == Classify

SpecClassifier == InitClassifier /\ [][NextClassifier]_vars

(***************************************************************************)
(* The pixel loops of load() and save() run on their own.  A 32-bit pixel  *)
(* is kept as two 16-bit halves, like a size.                              *)
(***************************************************************************)
MaxPixels == 2   \* pixels of the images whose contents are enumerated

ByteValues == {0, 255}

\* the host's macros for a 32-bit ARGB pixel
PIXEL_ARGB(a, r, g, b) == [hi |-> a * 256 + r, lo |-> g * 256 + b]

PIXEL_A(pixel) == pixel.hi \div 256

PIXEL_R(pixel) == pixel.hi % 256

PIXEL_G(pixel) == pixel.lo \div 256

PIXEL_B(pixel) == pixel.lo % 256

\* buf[k] of a C array
At(buf, k) == buf[k + 1]

\* faulty variant: the packed bytes of a pixel are taken to be A,R,G,B
PlainReorderARGB(buf, nch, n) ==
    [j \in 1..n |->
       LET i == j - 1
       IN  IF nch = 4
           THEN PIXEL_ARGB(At(buf, 4*i+0), At(buf, 4*i+1),
                           At(buf, 4*i+2), At(buf, 4*i+3))
           ELSE IF nch = 3
           THEN PIXEL_ARGB(255, At(buf, 3*i+0), At(buf, 3*i+1), At(buf, 3*i+2))
           ELSE IF nch = 2
           THEN PIXEL_ARGB(At(buf, 2*i), At(buf, 2*i+1),
                           At(buf, 2*i+1), At(buf, 2*i+1))
           ELSE PIXEL_ARGB(255, At(buf, i), At(buf, i), At(buf, i))]

\* load(): "Convert byte-ordered data in target to word-ordered ARGB":
\* im->data[0..n-1] after the loop chosen by pixel_format.num_channels
PlainReorder(buf, nch, n) ==
    [j \in 1..n |->
       LET i == j - 1
       IN  IF nch = 4
           THEN PIXEL_ARGB(At(buf, 4*i+3), At(buf, 4*i+0),
                           At(buf, 4*i+1), At(buf, 4*i+2))
           ELSE IF nch = 3
           THEN PIXEL_ARGB(255, At(buf, 3*i+0), At(buf, 3*i+1), At(buf, 3*i+2))
           ELSE IF nch = 2
           THEN PIXEL_ARGB(At(buf, 2*i+1), At(buf, 2*i),
                           At(buf, 2*i), At(buf, 2*i))
           ELSE PIXEL_ARGB(255, At(buf, i), At(buf, i), At(buf, i))]

\* faulty variant: the colour bytes are written in the order B,G,R
SaveReorderBGR(data, nch, n) ==
    [k \in 1..(n * nch) |->
       LET i == (k - 1) \div nch
           c == (k - 1) % nch
           pixel == At(data, i)
       IN  IF c = 0 THEN PIXEL_B(pixel)
           ELSE IF c = 1 THEN PIXEL_G(pixel)
           ELSE IF c = 2 THEN PIXEL_R(pixel)
           ELSE PIXEL_A(pixel)]

\* save(): pixels[0..n*nch-1] after the loop chosen by pixel_format.num_channels
SaveReorder(data, nch, n) ==
    [k \in 1..(n * nch) |->
       LET i == (k - 1) \div nch
           c == (k - 1) % nch
           pixel == At(data, i)
       IN  IF c = 0 THEN PIXEL_R(pixel)
           ELSE IF c = 1 THEN PIXEL_G(pixel)
           ELSE IF c = 2 THEN PIXEL_B(pixel)
           ELSE PIXEL_A(pixel)]

\* the pixels a host buffer may hold
PixelValues == {PIXEL_ARGB(a, r, g, b) : a \in ByteValues, r \in ByteValues,
                                         g \in ByteValues, b \in ByteValues}

\* the image sizes whose contents are enumerated
SmallSizes == {wh \in (1..MaxPixels) \X (1..MaxPixels) : wh[1] * wh[2] <= MaxPixels}

\* either the host hands save() an image, or the codec has filled load()'s
\* target for the basic info it reported
InitPixels ==
    /\ strict = TRUE
    /\ InitIdle
    /\ cls = NoClassification
    /\ par = NoParallelRun
    /\ \E wh \in SmallSizes :
         \/ \E a \in BOOLEAN, data \in [1..(wh[1] * wh[2]) -> PixelValues] :
              px = [stage |-> "host", w |-> wh[1], h |-> wh[2], has_alpha |-> a,
                    data |-> data,
                    num_color_channels |-> 0, alpha_bits |-> 0, num_extra_channels |-> 0,
                    num_channels |-> 0, pixels_size |-> WZero,
                    pixels |-> << >>, out |-> << >>]
         \/ \E ncc \in {1, 3}, ab \in {0, 8} :
              \E bytes \in [1..(wh[1] * wh[2] * ChannelCount(ncc, ab)) -> ByteValues] :
                px = [stage |-> "packed", w |-> wh[1], h |-> wh[2], has_alpha |-> ab > 0,
                      data |-> << >>,
                      num_color_channels |-> ncc, alpha_bits |-> ab,
                      num_extra_channels |-> IF ab > 0 THEN 1 ELSE 0,
                      num_channels |-> ChannelCount(ncc, ab),
                      pixels_size |-> ExpectedPixelsSize([xsize |-> wh[1], ysize |-> wh[2]],
                                                         ChannelCount(ncc, ab)),
                      pixels |-> bytes, out |-> << >>]
         \/ \* the host hands save() an image together with a quality tag
            \E a \in BOOLEAN, data \in [1..(wh[1] * wh[2]) -> PixelValues],
               q \in Tags({50, 99}) :
              px = [stage |-> "tagged", w |-> wh[1], h |-> wh[2], has_alpha |-> a,
                    data |-> data, quality |-> q,
                    num_color_channels |-> 0, alpha_bits |-> 0, num_extra_channels |-> 0,
                    num_channels |-> 0, pixels_size |-> WZero,
                    pixels |-> << >>, out |-> << >>]

\* save(): the layout chosen from im->has_alpha and the channel-swapping loop;
\* the encoded image is an RGB image with the alpha depth save() declared
SaveSwapChannels ==
    /\ px.stage = "host"
    /\ LET nch == SaveNumChannels(px.has_alpha)
       IN  px' = [px EXCEPT
                    !.stage = "packed",
                    !.num_color_channels = 3,
                    !.alpha_bits = SaveAlphaBits(px.has_alpha),
                    !.num_extra_channels = SaveExtraChannels(px.has_alpha),
                    !.num_channels = nch,
                    !.pixels_size = SavePixelsSize(nch, px.w, px.h),
                    !.pixels = SaveReorder(px.data, nch, px.w * px.h)]
    /\ UNCHANGED << inputVars, loadVars, pc, retval, diag, heap, im, failed, sv, cls, par >>

\* load(): the channel count taken from the basic info and the plain loop
LoadSwapChannels ==
    /\ px.stage = "packed"
    /\ LET nch == ChannelCount(px.num_color_channels, px.alpha_bits)
       IN  px' = [px EXCEPT
                    !.stage = "decoded",
                    !.num_channels = nch,
                    !.out = PlainReorder(px.pixels, nch, px.w * px.h)]
    /\ UNCHANGED << inputVars, loadVars, pc, retval, diag, heap, im, failed, sv, cls, par >>

\* what the decoder stores in target for a file of save(): the bytes that
\* were encoded when the frame was coded losslessly, possibly others when a
\* distance was set or nothing was asked for
DecodedPixels(lossless, pixels) ==
    IF lossless THEN {pixels} ELSE {pixels, [pixels EXCEPT ![1] = 255 - @]}

\* save() of a tagged image: what the encoder is given
SaveToFile ==
    /\ px.stage = "tagged"
    /\ LET nch == SaveNumChannels(px.has_alpha)
       IN  px' = [stage |-> "file", w |-> px.w, h |-> px.h,
                  has_alpha |-> px.has_alpha, data |-> px.data,
                  quality |-> px.quality,
                  num_color_channels |-> 3,
                  alpha_bits |-> SaveAlphaBits(px.has_alpha),
                  num_extra_channels |-> SaveExtraChannels(px.has_alpha),
                  num_channels |-> nch,
                  pixels_size |-> SavePixelsSize(nch, px.w, px.h),
                  pixels |-> SaveReorder(px.data, nch, px.w * px.h),
                  out |-> << >>,
                  xsize |-> px.w, ysize |-> px.h,
                  lossless |-> Lossless(px.quality),
                  uses_original_profile |-> UsesOriginalProfile(px.quality),
                  color |-> SRGBEncoding(FALSE),
                  host |-> [w |-> px.w, h |-> px.h, has_alpha |-> px.has_alpha],
                  encoded |-> SaveReorder(px.data, nch, px.w * px.h),
                  plain |-> FALSE]
    /\ UNCHANGED << inputVars, loadVars, pc, retval, diag, heap, im, failed, sv, cls, par >>

\* load() of that file: the basic info and the colour encoding are those
\* save() declared; the image is taken over by the basic-info handler, the
\* profile is classified, and the plain loop converts what the decoder stored
LoadFromFile ==
    /\ px.stage = "file"
    /\ \E bytes \in DecodedPixels(px.lossless, px.pixels) :
         LET nch == ChannelCount(px.num_color_channels, px.alpha_bits)
             is_gray == IsGray(px.num_color_channels)
         IN  px' = [px EXCEPT
                      !.stage = "reloaded",
                      !.num_channels = nch,
                      !.w = px.xsize,
                      !.h = px.ysize,
                      !.has_alpha = px.alpha_bits > 0,
                      !.pixels = bytes,
                      !.out = PlainReorder(bytes, nch, px.xsize * px.ysize),
                      !.plain = SkipsExtraction(TRUE,
                                  IsSRGB(px.color, SRGBEncoding(is_gray)))]
    /\ UNCHANGED << inputVars, loadVars, pc, retval, diag, heap, im, failed, sv, cls, par >>

NextPixels ==
    \/ SaveSwapChannels
    \/ LoadSwapChannels
    \/ SaveToFile
    \/ LoadFromFile

SpecPixels == InitPixels /\ [][NextPixels]_vars

(***************************************************************************)
(* Two calls of load() running in parallel on the same input bytes.  Each  *)
(* call has its own locals; the objects of libjxl and lcms2 are shared     *)
(* memory, and an object touched by both calls gives either of them an     *)
(* arbitrary result.  The library calls are assumed to succeed.            *)
(***************************************************************************)
Threads == {1, 2}

\* par.objs[1]: the global context of lcms2, which exists without being created
GlobalObjects == << [kind |-> "cmsContext", creator |-> 0, users |-> {}, live |-> TRUE] >>

NewObject(kind, t) == [kind |-> kind, creator |-> t, users |-> {t}, live |-> TRUE]

\* the call t works on the objects ids
Use(objs, ids, t) ==
    [i \in DOMAIN objs |->
       IF i \in ids THEN [objs[i] EXCEPT !.users = @ \cup {t}] ELSE objs[i]]

\* the call t destroys the objects ids
Destroy(objs, ids) ==
    [i \in DOMAIN objs |->
       IF i \in ids THEN [objs[i] EXCEPT !.live = FALSE] ELSE objs[i]]

\* what a call gets out of objects: the value v when no other call has
\* touched them and they still exist, anything otherwise
Outcome(objs, ids, t, v) ==
    IF \A i \in ids : objs[i].live /\ objs[i].users \subseteq {t}
    THEN {v} ELSE {v, "corrupted"}

\* faulty variant: the lcms2 calls use the global context
CmsContextGlobal(own) == 1

\* ctx = cmsCreateContext(NULL, NULL), the context all the THR calls are given
CmsContext(own) == own

InitParallel ==
    /\ strict = TRUE
    /\ InitIdle
    /\ cls = NoClassification
    /\ px = NoPixelRun
    /\ \E xsize \in 1..MaxSmallDim, ysize \in 1..MaxSmallDim, icc \in BOOLEAN :
         par = [stage |-> "running",
                input |-> [xsize |-> xsize, ysize |-> ysize, icc |-> icc],
                objs |-> GlobalObjects,
                thr |-> [t \in Threads |->
                           [pc |-> "entry", dec |-> 0, runner |-> 0, ctx |-> 0,
                            basic_info |-> "unset", target |-> "NULL",
                            data |-> "NULL"]]]

ParUnchanged ==
    UNCHANGED << inputVars, loadVars, pc, retval, diag, heap, im, failed, sv, cls, px >>

\* dec = JxlDecoderCreate(NULL); runner = JxlThreadParallelRunnerCreate(...)
ParCreate(t) ==
    /\ par.stage = "running"
    /\ par.thr[t].pc = "entry"
    /\ LET n == Len(par.objs)
       IN  par' = [par EXCEPT
                     !.objs = @ \o << NewObject("JxlDecoder", t),
                                      NewObject("JxlThreadParallelRunner", t) >>,
                     !.thr[t].dec = n + 1,
                     !.thr[t].runner = n + 2,
                     !.thr[t].pc = "loop"]
    /\ ParUnchanged

\* JxlDecoderSetInput and the event loop: the input is only read; the basic
\* info and the target come out of the call's decoder and runner
ParDecode(t) ==
    /\ par.stage = "running"
    /\ par.thr[t].pc = "loop"
    /\ LET ids == {par.thr[t].dec, par.thr[t].runner}
           objs == Use(par.objs, ids, t)
       IN  \E bi \in Outcome(objs, ids, t, << par.input.xsize, par.input.ysize >>),
              bytes \in Outcome(objs, ids, t, "decoded") :
             par' = [par EXCEPT !.objs = objs,
                                !.thr[t].basic_info = bi,
                                !.thr[t].target = bytes,
                                !.thr[t].pc = "convert"]
    /\ ParUnchanged

\* convert_to_srgb up to cmsCreateTransformTHR
ParOpenProfiles(t) ==
    /\ par.stage = "running"
    /\ par.thr[t].pc = "convert"
    /\ par.input.icc
    /\ LET own == Len(par.objs) + 1
           ctx == CmsContext(own)
       IN  par' = [par EXCEPT
                     !.objs = IF ctx = own THEN Append(@, NewObject("cmsContext", t))
                              ELSE Use(@, {ctx}, t),
                     !.thr[t].ctx = ctx,
                     !.thr[t].pc = "transform"]
    /\ ParUnchanged

\* cmsDoTransform into im->data, and the clean-up of convert_to_srgb
ParTransform(t) ==
    /\ par.stage = "running"
    /\ par.thr[t].pc = "transform"
    /\ LET ctx == par.thr[t].ctx
           objs == Use(par.objs, {ctx}, t)
       IN  \E data \in Outcome(objs, {ctx}, t,
                                IF par.thr[t].target = "decoded" THEN "cms"
                                ELSE "corrupted") :
             par' = [par EXCEPT
                       !.objs = IF objs[ctx].creator = t THEN Destroy(objs, {ctx})
                                ELSE objs,
                       !.thr[t].data = data,
                       !.thr[t].pc = "ret"]
    /\ ParUnchanged

\* no profile was retained: the plain loop reads target and writes im->data
ParPlain(t) ==
    /\ par.stage = "running"
    /\ par.thr[t].pc = "convert"
    /\ ~par.input.icc
    /\ par' = [par EXCEPT
                 !.thr[t].data = IF par.thr[t].target = "decoded" THEN "plain"
                                 ELSE "corrupted",
                 !.thr[t].pc = "ret"]
    /\ ParUnchanged

\* ret: free(target); JxlThreadParallelRunnerDestroy(runner); JxlDecoderDestroy(dec)
ParReturn(t) ==
    /\ par.stage = "running"
    /\ par.thr[t].pc = "ret"
    /\ par' = [par EXCEPT
                 !.objs = Destroy(@, {par.thr[t].dec, par.thr[t].runner}),
                 !.thr[t].target = "freed",
                 !.thr[t].pc = "returned"]
    /\ ParUnchanged

NextParallel ==
    \E t \in Threads :
      \/ ParCreate(t)
      \/ ParDecode(t)
      \/ ParOpenProfiles(t)
      \/ ParTransform(t)
      \/ ParPlain(t)
      \/ ParReturn(t)

SpecParallel == InitParallel /\ [][NextParallel]_vars


(***************************************************************************)
(* Properties of load() and save().                                        *)
(***************************************************************************)
Returned == pc = "returned"

Last(seq) == seq[Len(seq)]

LoadOwned == {"dec", "runner", "target", "icc_blob"}

SaveOwned == {"enc", "runner", "pixels", "jxl_bytes"}

NoPixelBuffer == heap.acq["target"] = 0 /\ im.data = "NULL"

\* C1: a metadata-only decode (load_data = 0) never allocates the codec-native
\* buffer or the host buffer and handles no NeedOutputBuffer event; once the
\* codec has reported a basic info with dimensions the host accepts, load has
\* returned success at that event with width, height and alpha flag populated.
C1_MetadataOnly ==
    (call = "load" /\ ~load_data) =>
        /\ NoPixelBuffer
        /\ ~Seen("JXL_DEC_NEED_IMAGE_OUT_BUFFER")
        /\ (basic_info.set /\ IMAGE_DIMENSIONS_OK(basic_info.xsize, basic_info.ysize)) =>
              /\ Returned
              /\ retval = "LOAD_SUCCESS"
              /\ Last(trace) = "JXL_DEC_BASIC_INFO"
              /\ im.w = basic_info.xsize
              /\ im.h = basic_info.ysize
              /\ im.has_alpha = (basic_info.alpha_bits > 0)

C1_Witness ==
    /\ call = "load"
    /\ ~load_data
    /\ Returned
    /\ retval = "LOAD_SUCCESS"
    /\ im.w = X_MAX_DIM
    /\ im.h = 1
    /\ im.has_alpha

\* C2: when the codec reports a width or a height above the host's maximum,
\* load has failed at the BasicInfo event with the unsupported-dimensions
\* diagnostic and no pixel buffer is allocated, with or without load_data.
C2_DimensionsTooLarge ==
    (call = "load" /\ basic_info.set
       /\ (basic_info.xsize > X_MAX_DIM \/ basic_info.ysize > X_MAX_DIM)) =>
        /\ Returned
        /\ retval = "LOAD_BADIMAGE"
        /\ diag = "Dimensions are not supported by imlib2"
        /\ Last(trace) = "JXL_DEC_BASIC_INFO"
        /\ NoPixelBuffer

C2_Witness ==
    /\ call = "load"
    /\ load_data
    /\ Returned
    /\ basic_info.set
    /\ basic_info.xsize = 1
    /\ basic_info.ysize = X_MAX_DIM + 1
    /\ retval = "LOAD_BADIMAGE"

C4_NoBufferOnFailure ==
    call = "load" =>
        /\ (Returned /\ retval # "LOAD_SUCCESS") => im.data = "NULL"
        /\ im.data # "NULL" =>
              /\ Last(trace) = "JXL_DEC_FULL_IMAGE"
              /\ Returned
              /\ retval = "LOAD_SUCCESS"

C4_Witness ==
    /\ call = "load"
    /\ Returned
    /\ retval = "LOAD_OOM"
    /\ Seen("JXL_DEC_FULL_IMAGE")
    /\ heap.acq["target"] = 1

\* C5: when load returns, on every exit path, each resource it acquired
\* (decoder, worker pool, codec-native buffer, ICC blob) has been released
\* exactly once, and nothing is released before it is acquired.
C5_LoadReleasesAll ==
    call = "load" =>
        \A r \in LoadOwned :
            /\ heap.acq[r] <= 1
            /\ heap.rel[r] <= heap.acq[r]
            /\ Returned => heap.rel[r] = heap.acq[r]

C5_Witness ==
    /\ call = "load"
    /\ Returned
    /\ diag = "Failed in JxlDecoderSubscribeEvents"
    /\ heap.acq["dec"] = 1
    /\ heap.acq["runner"] = 1

\* C6: when save returns, on every exit path, each resource it acquired
\* (encoder, worker pool, reordered pixel copy, encoded-bytes buffer) has been
\* released exactly once; a failure ends the call, and no call that failed is
\* made again.
C6_SaveReleasesAll ==
    call = "save" =>
        /\ \A r \in SaveOwned :
              /\ heap.acq[r] <= 1
              /\ heap.rel[r] <= heap.acq[r]
              /\ Returned => heap.rel[r] = heap.acq[r]
        /\ failed # {} => (Returned /\ retval # "LOAD_SUCCESS")
        /\ Cardinality(failed) <= 1
        /\ \A fn \in failed : Last(sv.calls) = fn

C6_Witness ==
    /\ call = "save"
    /\ Returned
    /\ diag = "Failed to write"
    /\ heap.acq["pixels"] = 1
    /\ heap.acq["jxl_bytes"] = 1
    /\ sv.outputs = 2


\* the channel count the basic info implies: 3 or 1 colour channels, plus alpha
ImpliedChannels ==
    (IF basic_info.num_color_channels >= 3 THEN 3 ELSE 1)
      + (IF basic_info.alpha_bits > 0 THEN 1 ELSE 0)

\* width x height x channelCount of the basic info
ImpliedSize == WMul(WMul(Wide(basic_info.xsize), basic_info.ysize), ImpliedChannels)

\* C7: at a NeedOutputBuffer event load uses channelCount = (3 if the basic
\* info has at least 3 colour channels, else 1) + (1 if alpha bits > 0); a
\* codec-reported size other than width x height x channelCount is fatal and
\* nothing is allocated; otherwise a buffer of exactly that size is allocated
\* and handed to the codec.
C7_OutputBufferSize ==
    (call = "load" /\ Seen("JXL_DEC_NEED_IMAGE_OUT_BUFFER")) =>
        /\ num_channels = ImpliedChannels
        /\ ("JxlDecoderImageOutBufferSize" \notin failed /\ pixels_size # ImpliedSize) =>
              /\ Returned
              /\ retval = "LOAD_FAIL"
              /\ diag = "Pixel buffer size is not as expected"
              /\ Last(trace) = "JXL_DEC_NEED_IMAGE_OUT_BUFFER"
              /\ heap.acq["target"] = 0
        /\ heap.acq["target"] > 0 =>
              /\ target.size = ImpliedSize
              /\ pixels_size = ImpliedSize
        /\ target.handed => heap.acq["target"] = 1
        /\ (pc = "loop" \/ pc = "convert") => target.handed

C7_Witness ==
    /\ call = "load"
    /\ pc = "loop"
    /\ target.handed
    /\ basic_info.num_color_channels = 1
    /\ basic_info.alpha_bits = 8
    /\ basic_info.xsize = X_MAX_DIM
    /\ basic_info.ysize = X_MAX_DIM
    /\ target.size = [hi |-> 32766, lo |-> 2]

\* C8: once the codec has reported NeedMoreInput, load has returned a failure
\* (truncated input), that result is the last one it asked the codec for, and
\* the host holds no pixel buffer.
C8_NeedMoreInputFatal ==
    (call = "load" /\ Seen("JXL_DEC_NEED_MORE_INPUT")) =>
        /\ Returned
        /\ retval = "LOAD_BADIMAGE"
        /\ diag = "Input truncated"
        /\ Last(trace) = "JXL_DEC_NEED_MORE_INPUT"
        /\ im.data = "NULL"

C8_Witness ==
    /\ call = "load"
    /\ Seen("JXL_DEC_NEED_MORE_INPUT")
    /\ Seen("JXL_DEC_NEED_IMAGE_OUT_BUFFER")
    /\ heap.rel["target"] = 1

\* C9: once the codec has reported Error, load has returned the failure
\* LOAD_BADIMAGE whatever the signature check says; the signature only selects
\* the diagnostic: "corrupted file?" for a codestream or container signature,
\* "not a JPEG XL file!" otherwise.
C9_ErrorFatal ==
    (call = "load" /\ Seen("JXL_DEC_ERROR")) =>
        /\ Returned
        /\ retval = "LOAD_BADIMAGE"
        /\ Last(trace) = "JXL_DEC_ERROR"
        /\ im.data = "NULL"
        /\ diag = IF sig \in {"JXL_SIG_CODESTREAM", "JXL_SIG_CONTAINER"}
                  THEN "Error while decoding: corrupted file?"
                  ELSE "Error while decoding: not a JPEG XL file!"

C9_Witness ==
    /\ call = "load"
    /\ Seen("JXL_DEC_ERROR")
    /\ sig = "JXL_SIG_CONTAINER"
    /\ Seen("JXL_DEC_BASIC_INFO")

\* failures that load() survives besides the colour transform: the codec
\* queries of the JXL_DEC_COLOR_ENCODING handler
ColorQueryFailures ==
    {"JxlDecoderSetPreferredColorProfile", "JxlDecoderGetColorAsEncodedProfile",
     "JxlDecoderGetICCProfileSize", "JxlDecoderGetColorAsICCProfile"}

TransformFallback ==
    ("convert_to_srgb" \in failed) =>
        /\ Returned
        /\ retval = "LOAD_SUCCESS"
        /\ im.data = "plain"
        /\ icc_size > 0

\* C10 as stated: a failed colour transform does not fail load, which falls
\* back to plain channel reordering and returns success, and the colour
\* transform is the only failure in load that does not fail the call.
C10_SoleException ==
    (call = "load" /\ Returned) =>
        /\ TransformFallback
        /\ (failed \ {"convert_to_srgb"}) # {} => retval # "LOAD_SUCCESS"

\* C10 amended: a failed colour transform does not fail load, which falls back
\* to plain channel reordering and returns success; the only other failures
\* that do not fail the call are those of the codec queries of the
\* NeedColorEncoding handler (preferred profile, structured profile, ICC size,
\* ICC fetch); every other failure fails the call.
C10_TransformFallback ==
    (call = "load" /\ Returned) =>
        /\ TransformFallback
        /\ (failed \ ({"convert_to_srgb"} \cup ColorQueryFailures)) # {} =>
              retval # "LOAD_SUCCESS"
        /\ failed \subseteq ({"convert_to_srgb"} \cup ColorQueryFailures) =>
              retval = "LOAD_SUCCESS"

C10_Witness ==
    /\ call = "load"
    /\ Returned
    /\ "convert_to_srgb" \in failed
    /\ "JxlDecoderGetColorAsEncodedProfile" \in failed
    /\ num_channels = 2
    /\ retval = "LOAD_SUCCESS"

(***************************************************************************)
(* C11: the JXL_DEC_COLOR_ENCODING handler.                                *)
(***************************************************************************)
\* the handler called fn
ColorCalled(fn) == \E i \in 1..Len(color.calls) : color.calls[i] = fn

\* the state in which the handler has just finished
AfterColorEvent == Len(trace) > 0 /\ Last(trace) = "JXL_DEC_COLOR_ENCODING"

\* the ICC size query or the ICC fetch reported a failure
NoIccAvailable ==
    \/ "JxlDecoderGetICCProfileSize" \in failed
    \/ "JxlDecoderGetColorAsICCProfile" \in failed

\* C11: once the colour-encoding event was handled: if the encoded profile was
\* read and passed the sRGB test, neither ICC call was made and no profile is
\* stored; otherwise the size query was made first and the fetch, if made, came
\* after it, and when both succeeded the blob is held with its size until the
\* call returns; if the size query or the fetch failed, no profile is stored,
\* and the handler leaves the call running with no error recorded.
C11_ColorEncodingHandler ==
    color.handled =>
      /\ color.canonical =>
            /\ ~ColorCalled("JxlDecoderGetICCProfileSize")
            /\ ~ColorCalled("JxlDecoderGetColorAsICCProfile")
            /\ icc_size = 0
            /\ heap.acq["icc_blob"] = 0
      /\ ~color.canonical =>
            /\ Len(color.calls) >= 3
            /\ color.calls[3] = "JxlDecoderGetICCProfileSize"
            /\ ColorCalled("JxlDecoderGetColorAsICCProfile") =>
                  /\ Last(color.calls) = "JxlDecoderGetColorAsICCProfile"
                  /\ "JxlDecoderGetICCProfileSize" \notin failed
            /\ (ColorCalled("JxlDecoderGetColorAsICCProfile") /\ ~NoIccAvailable
                   /\ pc # "returned") =>
                  /\ heap.ptr["icc_blob"] = "live"
                  /\ Live(heap, "icc_blob") = 1
      /\ NoIccAvailable =>
            /\ icc_size = 0
            /\ Live(heap, "icc_blob") = 0
            /\ heap.ptr["icc_blob"] = "null"
            /\ AfterColorEvent => (pc = "loop" /\ diag = "" /\ retval = "LOAD_FAIL")

\* a failed ICC fetch after a profile that is not sRGB, and the call succeeded
C11_Witness ==
    /\ color.handled
    /\ ~color.canonical
    /\ "JxlDecoderGetColorAsICCProfile" \in failed
    /\ pc = "returned"
    /\ retval = "LOAD_SUCCESS"
    /\ im.data = "plain"

(***************************************************************************)
(* C12 - C14: the colour-profile test, checked under SpecClassifier.       *)
(***************************************************************************)
Classified == cls.stage = "classified"

\* the test accepted the profile whatever the chromaticities are
TagsAccepted(ce) ==
    /\ ce.transfer_function = "JXL_TRANSFER_FUNCTION_SRGB"
    /\ ce.white_point = "JXL_WHITE_POINT_D65"
    /\ ce.color_space = "JXL_COLOR_SPACE_RGB" => ce.primaries = "JXL_PRIMARIES_SRGB"

\* C12 as stated: a profile is accepted only if its colour space is the colour
\* space of the reference (RGB with RGB, Gray with Gray), the reference being
\* gray exactly when the basic info has one colour channel.
C12_ColorSpaceMatchesReference ==
    Classified =>
      /\ (cls.srgb.color_space = "JXL_COLOR_SPACE_GRAY") <=> (cls.num_color_channels = 1)
      /\ cls.canonical => cls.color_enc.color_space = cls.srgb.color_space

\* C12, amended: the reference is gray exactly when the basic info has one
\* colour channel; an accepted profile has the colour space RGB or Gray; the
\* colour space is not compared with the reference's: an RGB or Gray profile
\* whose tags are sRGB's is accepted against either reference.
C12_ColorSpaceRGBOrGray ==
    Classified =>
      /\ (cls.srgb.color_space = "JXL_COLOR_SPACE_GRAY") <=> (cls.num_color_channels = 1)
      /\ cls.canonical =>
            cls.color_enc.color_space \in {"JXL_COLOR_SPACE_RGB", "JXL_COLOR_SPACE_GRAY"}
      /\ (/\ cls.color_enc.color_space \in {"JXL_COLOR_SPACE_RGB", "JXL_COLOR_SPACE_GRAY"}
          /\ TagsAccepted(cls.color_enc)) => cls.canonical

\* a Gray profile accepted against the RGB reference
C12_Witness ==
    /\ Classified
    /\ cls.canonical
    /\ cls.color_enc.color_space = "JXL_COLOR_SPACE_GRAY"
    /\ cls.srgb.color_space = "JXL_COLOR_SPACE_RGB"

\* the chromaticity vectors of the primaries
PrimaryFields == {"primaries_red_xy", "primaries_green_xy", "primaries_blue_xy"}

\* the distance of component k of the vector f from the reference's, in units of 10^-5
Units(f, k) ==
    LET d == cls.color_enc[f][k].u - cls.srgb[f][k].u
    IN  IF d < 0 THEN -d ELSE d

\* every tested chromaticity component is less than n units from the reference's
PrimariesWithin(n) ==
    \/ cls.color_enc.primaries = "JXL_PRIMARIES_SRGB"
    \/ /\ cls.color_enc.primaries = "JXL_PRIMARIES_CUSTOM"
       /\ \A f \in PrimaryFields, k \in 1..2 : Units(f, k) < n

WhitePointWithin(n) ==
    \/ cls.color_enc.white_point = "JXL_WHITE_POINT_D65"
    \/ /\ cls.color_enc.white_point = "JXL_WHITE_POINT_CUSTOM"
       /\ \A k \in 1..2 : Units("white_point_xy", k) < n

OtherPrimaries(ce, pr, p) ==
    [ce EXCEPT !.primaries = pr,
               !.primaries_red_xy = Shifted(cls.srgb.primaries_red_xy, 1, p)]

IsWord(word, b3, b2, b1, b0) ==
    /\ word.hi = b3 * 256 + b2
    /\ word.lo = b1 * 256 + b0

\* byte c of pixel i of the packed buffer with C bytes per pixel
PackedByte(C, i, c) == px.pixels[C * i + c + 1]

\* the image came from the host and went through save()'s loop
FromHost == Len(px.data) > 0

\* C15: after the plain loop of load(), for every pixel i < w*h: with 4
\* channels the word is (A,R,G,B), A in the most significant byte, read from
\* the packed bytes R,G,B,A; with 3 channels it is (0xFF,R,G,B); with 2
\* channels (A,gray,gray,gray) read from gray,A; with 1 channel
\* (0xFF,gray,gray,gray).
C15_PlainReordering ==
    px.stage = "decoded" =>
      /\ px.num_channels \in 1..4
      /\ Len(px.out) = px.w * px.h
      /\ \A i \in 0..(px.w * px.h - 1) :
            LET C == px.num_channels
                word == px.out[i + 1]
            IN  /\ C = 4 => IsWord(word, PackedByte(4, i, 3), PackedByte(4, i, 0),
                                         PackedByte(4, i, 1), PackedByte(4, i, 2))
                /\ C = 3 => IsWord(word, 255, PackedByte(3, i, 0),
                                         PackedByte(3, i, 1), PackedByte(3, i, 2))
                /\ C = 2 => IsWord(word, PackedByte(2, i, 1), PackedByte(2, i, 0),
                                         PackedByte(2, i, 0), PackedByte(2, i, 0))
                /\ C = 1 => IsWord(word, 255, PackedByte(1, i, 0),
                                         PackedByte(1, i, 0), PackedByte(1, i, 0))

\* a gray+alpha image of two pixels decoded, the second pixel white and transparent
C15_Witness ==
    /\ px.stage = "decoded"
    /\ ~FromHost
    /\ px.num_channels = 2
    /\ px.w * px.h = 2
    /\ px.pixels = << 0, 255, 255, 0 >>
    /\ IsWord(px.out[2], 0, 255, 255, 255)

\* C16: after save()'s loop the layout follows im->has_alpha alone: without
\* alpha 3 channels, alpha depth 0, no extra channel, and every pixel packed
\* as R,G,B; with alpha 4 channels, alpha depth 8, one extra channel, and
\* every pixel packed as R,G,B,A; the packed buffer holds
\* channels * width * height bytes.
C16_SaveLayout ==
    (px.stage = "packed" /\ FromHost) =>
      /\ px.num_channels = (IF px.has_alpha THEN 4 ELSE 3)
      /\ px.alpha_bits = (IF px.has_alpha THEN 8 ELSE 0)
      /\ px.num_extra_channels = (IF px.has_alpha THEN 1 ELSE 0)
      /\ px.pixels_size = Wide(px.num_channels * px.w * px.h)
      /\ Len(px.pixels) = px.num_channels * px.w * px.h
      /\ \A i \in 0..(px.w * px.h - 1) :
            LET C == px.num_channels
                pixel == px.data[i + 1]
            IN  /\ PackedByte(C, i, 0) = pixel.hi % 256
                /\ PackedByte(C, i, 1) = pixel.lo \div 256
                /\ PackedByte(C, i, 2) = pixel.lo % 256
                /\ px.has_alpha => PackedByte(C, i, 3) = pixel.hi \div 256

\* an image without alpha whose pixel has a transparent alpha byte, packed in 3 bytes
C16_Witness ==
    /\ px.stage = "packed"
    /\ FromHost
    /\ ~px.has_alpha
    /\ px.w * px.h = 2
    /\ px.data[2].hi = 255
    /\ Len(px.pixels) = 6

\* C17: save()'s loop followed by load()'s plain loop gives back the host
\* buffer when 4 channels are used; when 3 channels are used every pixel
\* comes back with its R,G,B and the alpha byte 0xFF.
C17_RoundTrip ==
    (px.stage = "decoded" /\ FromHost) =>
      /\ px.has_alpha => (px.num_channels = 4 /\ px.out = px.data)
      /\ ~px.has_alpha =>
            /\ px.num_channels = 3
            /\ Len(px.out) = Len(px.data)
            /\ \A j \in 1..Len(px.data) :
                  /\ px.out[j].hi = 255 * 256 + (px.data[j].hi % 256)
                  /\ px.out[j].lo = px.data[j].lo

\* a transparent pixel of an image without alpha comes back opaque
C17_Witness ==
    /\ px.stage = "decoded"
    /\ FromHost
    /\ ~px.has_alpha
    /\ px.data[1].hi \div 256 = 0
    /\ px.out[1].hi \div 256 = 255
    /\ px.out # px.data

(***************************************************************************)
(* C18 - C20: the quality and compression tags of save().                  *)
(***************************************************************************)
\* save() made the call fn
SaveCalled(fn) == \E i \in 1..Len(sv.calls) : sv.calls[i] = fn

\* save() got past its initialisation and read the tags
TagsRead == call = "save" /\ Len(sv.calls) > Len(SaveInitSteps)

\* C18: with a quality tag, the quality is the tag clamped to [0,99]; at 99
\* save() calls the lossless setter and not the distance setter; below 99 it
\* calls the distance setter and not the lossless setter, with the distance
\* 15 * (1 - quality/99): 15 for quality 0 and for negative tags, strictly
\* smaller for every larger quality up to 98, and never 0.
C18_QualityMapping ==
    (TagsRead /\ sv.quality.present) =>
      LET val == sv.quality.val
          quality == IF val < 0 THEN 0 ELSE IF val > 99 THEN 99 ELSE val
      IN  /\ quality = 99 =>
                /\ SaveCalled("JxlEncoderSetFrameLossless")
                /\ ~SaveCalled("JxlEncoderSetFrameDistance")
                /\ ~sv.distance_set
                /\ pc = "output" => sv.lossless
          /\ quality < 99 =>
                /\ ~SaveCalled("JxlEncoderSetFrameLossless")
                /\ ~sv.lossless
                /\ SaveCalled("JxlEncoderSetFrameDistance")
                /\ pc = "output" => sv.distance_set
                /\ sv.distance_set =>
                      /\ sv.distance99 = 15 * (99 - quality)
                      /\ val <= 0 => sv.distance99 = 15 * 99
                      /\ sv.distance99 > 0
                      /\ \A q \in 0..98 :
                            /\ q > quality => Distance99(q) < sv.distance99
                            /\ q < quality => Distance99(q) > sv.distance99

\* a negative quality tag: the distance is set to 15
C18_Witness ==
    /\ TagsRead
    /\ sv.quality.present
    /\ sv.quality.val < 0
    /\ sv.distance_set
    /\ sv.distance99 = 15 * 99
    /\ ~sv.lossless

\* the quality tag is 50 and the distance setter was called with success
DistanceSetFor50 ==
    /\ TagsRead
    /\ sv.quality.present
    /\ sv.quality.val = 50
    /\ sv.distance_set

\* C19 as stated: for a quality tag of 50 the distance is 7.7 to one decimal
\* place (sv.distance99 is 99 times the distance).
C19_DistanceAbout77 ==
    DistanceSetFor50 =>
      /\ 100 * sv.distance99 >= 99 * 765
      /\ 100 * sv.distance99 < 99 * 775

\* C19, amended: for a quality tag of 50 the distance is 15 - 750/99, which is
\* 7.42 to two decimal places.
C19_DistanceAbout742 ==
    DistanceSetFor50 =>
      /\ 99 * sv.distance99 = 99 * 99 * 15 - 99 * 750
      /\ 1000 * sv.distance99 >= 99 * 7415
      /\ 1000 * sv.distance99 < 99 * 7425

C19_Witness == DistanceSetFor50 /\ pc = "output"

\* C20: with a compression tag, the effort handed to the codec is the tag
\* clamped to [1,9]: 1 for every tag below 1, 9 for every tag above 9, the
\* tag itself otherwise; without the tag the option is not set.
C20_EffortMapping ==
    TagsRead =>
      /\ ~sv.compression.present =>
            (~sv.effort_set /\ ~SaveCalled("JxlEncoderFrameSettingsSetOption"))
      /\ sv.compression.present =>
            LET val == sv.compression.val
            IN  /\ pc = "output" => sv.effort_set
                /\ sv.effort_set =>
                      /\ SaveCalled("JxlEncoderFrameSettingsSetOption")
                      /\ val < 1 => sv.effort = 1
                      /\ val > 9 => sv.effort = 9
                      /\ val \in 1..9 => sv.effort = val

\* a compression tag of 0 gives effort 1
C20_Witness ==
    /\ TagsRead
    /\ sv.compression.present
    /\ sv.compression.val = 0
    /\ sv.effort_set
    /\ sv.effort = 1

(***************************************************************************)
(* C21: the two tags of save() are independent.                            *)
(***************************************************************************)
\* C21: without a quality tag save() calls neither the lossless setter nor
\* the distance setter; without a compression tag it does not set the effort;
\* and once the configuration is complete, what was set for the quality is
\* decided by the quality tag alone and what was set for the effort by the
\* compression tag alone.
C21_TagsIndependent ==
    TagsRead =>
      /\ ~sv.quality.present =>
            /\ ~SaveCalled("JxlEncoderSetFrameLossless")
            /\ ~SaveCalled("JxlEncoderSetFrameDistance")
            /\ ~sv.lossless
            /\ ~sv.distance_set
      /\ ~sv.compression.present =>
            /\ ~SaveCalled("JxlEncoderFrameSettingsSetOption")
            /\ ~sv.effort_set
      /\ pc = "output" =>
            LET qv == sv.quality.val
                cv == sv.compression.val
            IN  /\ sv.lossless <=> (sv.quality.present /\ qv >= 99)
                /\ sv.distance_set <=> (sv.quality.present /\ qv < 99)
                /\ sv.distance_set =>
                      sv.distance99 = 15 * (99 - (IF qv < 0 THEN 0 ELSE qv))
                /\ sv.effort_set <=> sv.compression.present
                /\ sv.effort_set =>
                      sv.effort = (IF cv < 1 THEN 1 ELSE IF cv > 9 THEN 9 ELSE cv)

\* only the compression tag is present, and only the effort was set
C21_Witness ==
    /\ TagsRead
    /\ pc = "output"
    /\ ~sv.quality.present
    /\ sv.compression.present
    /\ sv.effort_set
    /\ ~sv.lossless
    /\ ~sv.distance_set

(***************************************************************************)
(* C22: the stalled encoder.                                               *)
(***************************************************************************)
\* C22: when JxlEncoderProcessOutput reports JXL_ENC_NEED_MORE_OUTPUT and
\* has left the cursor at the start of the buffer, save() has returned
\* LOAD_FAIL with "Encoding stalled"; that encoder call is the last call
\* save() made (no fwrite follows it, no further encoder call), and the sink
\* holds what it held before.  The diagnostic is raised in no other case.
C22_EncodingStalled ==
    LET stalled == /\ call = "save"
                   /\ sv.res = "JXL_ENC_NEED_MORE_OUTPUT"
                   /\ sv.cursor = 0
    IN  /\ stalled =>
              /\ pc = "returned"
              /\ retval = "LOAD_FAIL"
              /\ diag = "Encoding stalled"
              /\ Last(sv.calls) = "JxlEncoderProcessOutput"
              /\ Len(SelectSeq(sv.calls, LAMBDA c : c = "fwrite")) = sv.outputs - 1
              /\ Len(SelectSeq(sv.calls, LAMBDA c : c = "JxlEncoderProcessOutput"))
                    = sv.outputs
        /\ diag = "Encoding stalled" => stalled

\* a stall after one buffer had been flushed
C22_Witness ==
    /\ call = "save"
    /\ diag = "Encoding stalled"
    /\ sv.outputs = 2
    /\ sv.sink > 0
    /\ pc = "returned"

(***************************************************************************)
(* C24: JXL_DEC_FULL_IMAGE is terminal.                                    *)
(***************************************************************************)
\* C24: JXL_DEC_FULL_IMAGE is only ever the last result load() takes from
\* JxlDecoderProcessInput: once it was returned, load() has left the loop
\* and makes no further call of JxlDecoderProcessInput, so no second frame
\* is requested.
C24_FullImageTerminal ==
    call = "load" =>
      /\ \A i \in 1..Len(trace) :
            trace[i] = "JXL_DEC_FULL_IMAGE" => i = Len(trace)
      /\ Seen("JXL_DEC_FULL_IMAGE") => pc \in {"convert", "returned", "crashed"}

\* a call that returned with the image of the first JXL_DEC_FULL_IMAGE
C24_Witness ==
    /\ call = "load"
    /\ pc = "returned"
    /\ retval = "LOAD_SUCCESS"
    /\ Len(trace) >= 3
    /\ Last(trace) = "JXL_DEC_FULL_IMAGE"
    /\ im.data \in {"cms", "plain"}

(***************************************************************************)
(* C25: uses_original_profile.                                             *)
(***************************************************************************)
\* C25: basic_info.uses_original_profile is true exactly when the quality
\* tag is present and its clamped value is 99; it is false for every lossy
\* quality and without a quality tag.  The quality setters, where the flag
\* is decided, are called before JxlEncoderSetBasicInfo, and when the
\* lossless setter succeeded the flag is true.
C25_UsesOriginalProfile ==
    TagsRead =>
      /\ sv.uses_original_profile <=> (sv.quality.present /\ sv.quality.val >= 99)
      /\ sv.lossless => sv.uses_original_profile
      /\ sv.distance_set => ~sv.uses_original_profile
      /\ SaveCalled("JxlEncoderSetBasicInfo") =>
            \A i \in 1..Len(sv.calls) :
              sv.calls[i] \in {"JxlEncoderSetFrameLossless", "JxlEncoderSetFrameDistance"}
                => i < IndexOf(sv.calls, "JxlEncoderSetBasicInfo")

\* a lossy save whose basic info was handed over without the flag
C25_Witness ==
    /\ TagsRead
    /\ sv.quality.present
    /\ sv.quality.val = 98
    /\ sv.distance_set
    /\ SaveCalled("JxlEncoderSetBasicInfo")
    /\ ~sv.uses_original_profile

(***************************************************************************)
(* C27: one conversion pass per decode.                                    *)
(***************************************************************************)
\* C27: when a full decode returns LOAD_SUCCESS, exactly one of the two
\* passes has written the host buffer: the colour transform when a profile
\* was retained and convert_to_srgb succeeded, and the plain reordering
\* exactly when no profile was retained (icc_size = 0) or the transform
\* failed.
C27_ExactlyOnePass ==
    (call = "load" /\ pc = "returned" /\ retval = "LOAD_SUCCESS"
       /\ Seen("JXL_DEC_FULL_IMAGE")) =>
      /\ Cardinality(im.written_by) = 1
      /\ "cms" \in im.written_by
            <=> (icc_size > 0 /\ "convert_to_srgb" \notin failed)
      /\ "plain" \in im.written_by
            <=> (icc_size = 0 \/ "convert_to_srgb" \in failed)

\* a retained profile whose transform succeeded: the plain pass did not run
C27_Witness ==
    /\ call = "load"
    /\ pc = "returned"
    /\ retval = "LOAD_SUCCESS"
    /\ Seen("JXL_DEC_FULL_IMAGE")
    /\ icc_size > 0
    /\ im.written_by = {"cms"}

(***************************************************************************)
(* C29: what reaches the sink.                                             *)
(***************************************************************************)
\* the chunks written so far are the encoder's bytes 1..total: each chunk
\* starts where the one before it ended
InOrderOnce(chunks, total) ==
    /\ \A i \in 1..Len(chunks) :
          chunks[i][1] = (IF i = 1 THEN 1 ELSE chunks[i - 1][1] + chunks[i - 1][2])
    /\ total = (IF chunks = << >> THEN 0
                ELSE chunks[Len(chunks)][1] + chunks[Len(chunks)][2] - 1)

\* the number of calls of fn that save() made
SaveCallCount(fn) == Len(SelectSeq(sv.calls, LAMBDA c : c = fn))

\* C29: at the head of every iteration of the output loop the sink holds the
\* bytes the encoder has produced so far, in the encoder's order, each once,
\* and the cursor and the available space describe the whole buffer; when
\* save() returns LOAD_SUCCESS the sink holds exactly the bytes the encoder
\* produced, in order and each once, written by one fwrite per encoder call,
\* the last of them after JXL_ENC_SUCCESS.
C29_SinkHoldsEncoderOutput ==
    call = "save" =>
      /\ pc = "output" =>
            /\ InOrderOnce(sv.written, sv.produced)
            /\ sv.sink = sv.produced
            /\ sv.next_out = 0
            /\ sv.avail_out = sv.jxl_bytes_size
            /\ SaveCallCount("fwrite") = sv.outputs
      /\ (pc = "returned" /\ retval = "LOAD_SUCCESS") =>
            /\ InOrderOnce(sv.written, sv.produced)
            /\ sv.sink = sv.produced
            /\ sv.res = "JXL_ENC_SUCCESS"
            /\ Last(sv.calls) = "fwrite"
            /\ SaveCallCount("fwrite") = sv.outputs
            /\ SaveCallCount("JxlEncoderProcessOutput") = sv.outputs

\* a successful save whose output took two flushes and a final write
C29_Witness ==
    /\ call = "save"
    /\ pc = "returned"
    /\ retval = "LOAD_SUCCESS"
    /\ sv.outputs = 3
    /\ Len(sv.written) = 3
    /\ sv.produced > sv.jxl_bytes_size

(***************************************************************************)
(* C28: the output loop makes progress.                                    *)
(***************************************************************************)
\* C28: every iteration of the output loop either ends the call (success,
\* encoder error, failed write, stall) or has put at least one new byte of
\* the encoder into the sink and reset the cursor: the number of iterations
\* completed without returning never exceeds the number of bytes flushed,
\* and the number of encoder calls never exceeds the number of bytes the
\* encoder produced by more than one.  An encoder with N bytes of output is
\* therefore called at most N + 1 times.
C28_OutputLoopProgress ==
    call = "save" =>
      /\ sv.outputs <= sv.produced + 1
      /\ pc = "output" =>
            /\ sv.outputs <= sv.sink
            /\ Len(sv.written) = sv.outputs
            /\ sv.next_out = 0
            /\ sv.avail_out = sv.jxl_bytes_size
      /\ (pc = "returned" /\ sv.outputs > 0) =>
            \/ retval = "LOAD_SUCCESS"
            \/ /\ retval = "LOAD_FAIL"
               /\ diag \in {"Error during encoding", "Encoding stalled",
                             "Failed to write"}

\* two iterations that each flushed a single byte and went on
C28_Witness ==
    /\ call = "save"
    /\ pc = "output"
    /\ sv.outputs = 2
    /\ sv.sink = 2
    /\ sv.written = << << 1, 1 >>, << 2, 1 >> >>

C26_CodecRoundTrip ==
    (/\ px.stage = "reloaded"
     /\ px.host.has_alpha
     /\ px.quality.present
     /\ px.quality.val = 99) =>
      /\ px.lossless
      /\ px.uses_original_profile
      /\ px.plain
      /\ px.w = px.host.w
      /\ px.h = px.host.h
      /\ px.has_alpha
      /\ px.num_channels = 4
      /\ px.pixels = px.encoded
      /\ px.out = px.data

\* two different pixels, the first transparent, came back as they were
C26_Witness ==
    /\ px.stage = "reloaded"
    /\ px.host.has_alpha
    /\ px.quality.present
    /\ px.quality.val = 99
    /\ px.w = 2
    /\ px.h = 1
    /\ px.data = << PIXEL_ARGB(0, 255, 0, 255), PIXEL_ARGB(255, 0, 255, 0) >>
    /\ px.out = px.data

(***************************************************************************)
(* C23: two calls of load() in parallel.                                   *)
(***************************************************************************)
\* what a call running alone returns for the input
AloneResult(input) ==
    [basic_info |-> << input.xsize, input.ysize >>,
     data |-> IF input.icc THEN "cms" ELSE "plain"]

\* C23: under every interleaving of two calls of load() on the same input,
\* no decoder, worker pool or lcms2 context is touched by a call that did
\* not create it, the global lcms2 context is touched by neither, every
\* object a call created is destroyed when the call has returned, and each
\* call gets the basic info and the pixel buffer it gets when it runs alone.
C23_ParallelLoads ==
    par.stage = "running" =>
      /\ \A i \in DOMAIN par.objs :
            /\ par.objs[i].users \subseteq {par.objs[i].creator}
            /\ par.objs[i].creator = 0 => par.objs[i].users = {}
      /\ \A t \in Threads :
            /\ par.thr[t].pc \in {"convert", "transform", "ret", "returned"} =>
                  par.thr[t].basic_info = AloneResult(par.input).basic_info
            /\ par.thr[t].pc \in {"ret", "returned"} =>
                  par.thr[t].data = AloneResult(par.input).data
            /\ par.thr[t].pc = "returned" =>
                  \A i \in DOMAIN par.objs :
                    par.objs[i].creator = t => ~par.objs[i].live

\* both calls have returned, and each created its lcms2 context while the
\* decoder of the other was alive
C23_Witness ==
    /\ par.stage = "running"
    /\ par.input.icc
    /\ \A t \in Threads : par.thr[t].pc = "returned"
    /\ Len(par.objs) = 7
    /\ par.thr[1].dec < par.thr[2].ctx
    /\ par.thr[2].dec < par.thr[1].ctx
    /\ par.thr[1].data = "cms"
    /\ par.thr[2].data = "cms"

(***************************************************************************)
(* C31: the ICC blob.                                                      *)
(***************************************************************************)
\* convert_to_srgb was called after the loop
TransformAttempted == "cms" \in im.written_by \/ "convert_to_srgb" \in failed

\* C31: between two results of JxlDecoderProcessInput load() holds at most
\* one ICC blob that it has not freed, icc_size is greater than zero only
\* when a fetched blob is held, and after the loop convert_to_srgb is called
\* exactly when icc_size is greater than zero; for every sequence of
\* JXL_DEC_COLOR_ENCODING results.
C31_AtMostOneIccBlob ==
    call = "load" =>
      /\ pc \in {"loop", "convert"} =>
            /\ Live(heap, "icc_blob") <= 1
            /\ icc_size > 0 =>
                  /\ heap.ptr["icc_blob"] = "live"
                  /\ Last(color.calls) = "JxlDecoderGetColorAsICCProfile"
      /\ (pc = "returned" /\ Seen("JXL_DEC_FULL_IMAGE") /\ retval = "LOAD_SUCCESS") =>
            (TransformAttempted <=> icc_size > 0)

\* a second JXL_DEC_COLOR_ENCODING fetched a profile while the blob of the
\* first was still allocated: two blobs, one pointer
C31_Witness ==
    /\ call = "load"
    /\ pc = "loop"
    /\ trace = << "JXL_DEC_COLOR_ENCODING", "JXL_DEC_COLOR_ENCODING" >>
    /\ icc_size > 0
    /\ heap.ptr["icc_blob"] = "live"
    /\ heap.acq["icc_blob"] = 2
    /\ heap.rel["icc_blob"] = 0

(***************************************************************************)
(* C32: the 32-bit products.                                               *)
(***************************************************************************)
\* C32: for dimensions that passed the host's check (1..32767 each), the
\* products the code forms in 32-bit unsigned arithmetic are the
\* mathematical products: xsize * ysize in load(), xsize * ysize and
\* num_channels * w * h in save() with at most 4 channels; none of them
\* reaches 2^32.
C32_ProductsDoNotWrap ==
    /\ (call = "load" /\ validated) =>
          /\ IMAGE_DIMENSIONS_OK(basic_info.xsize, basic_info.ysize)
          /\ num_pixels = WMul(Wide(basic_info.xsize), basic_info.ysize)
          /\ num_pixels.hi < Half
    /\ TagsRead =>
          /\ IMAGE_DIMENSIONS_OK(im.w, im.h)
          /\ sv.num_channels <= 4
          /\ sv.num_pixels = WMul(Wide(im.w), im.h)
          /\ sv.pixels_size = WMul(WMul(Wide(sv.num_channels), im.w), im.h)
          /\ sv.pixels_size = WMul(sv.num_pixels, sv.num_channels)
          /\ sv.pixels_size.hi < Half

\* the largest image with alpha: 4 * 32767 * 32767 = 65532 * 2^16 + 4
C32_Witness ==
    /\ TagsRead
    /\ im.w = X_MAX_DIM
    /\ im.h = X_MAX_DIM
    /\ sv.num_channels = 4
    /\ sv.pixels_size = [hi |-> 65532, lo |-> 4]

(***************************************************************************)
(* C33: who writes im->w, im->h and im->has_alpha.                         *)
(***************************************************************************)
\* the three fields of the host image that load() reports
HostFields == << im.w, im.h, im.has_alpha >>

\* C33: a step of load() changes im->w, im->h or im->has_alpha only when it
\* handles JXL_DEC_BASIC_INFO, the basic info was retrieved and its
\* dimensions passed IMAGE_DIMENSIONS_OK, and the fields then hold the values
\* of that basic info; as long as no basic info has passed the check (a call
\* that failed in its initialisation, in JxlDecoderGetBasicInfo or at the
\* dimension check included) the fields have the values they had at entry.
C33_HostFieldsWrittenAfterCheck ==
    /\ [](call = "load" /\ ~validated => HostFields = << 0, 0, FALSE >>)
    /\ [][(call = "load" /\ HostFields' # HostFields) =>
            /\ pc = "loop"
            /\ trace' = Append(trace, "JXL_DEC_BASIC_INFO")
            /\ validated'
            /\ "JxlDecoderGetBasicInfo" \notin failed'
            /\ IMAGE_DIMENSIONS_OK(basic_info'.xsize, basic_info'.ysize)
            /\ HostFields' = << basic_info'.xsize, basic_info'.ysize,
                                basic_info'.alpha_bits > 0 >>]_vars

\* the basic info of an image one pixel too wide was read and rejected: the
\* host image is as it was at entry
C33_Witness ==
    /\ call = "load"
    /\ Returned
    /\ diag = "Dimensions are not supported by imlib2"
    /\ basic_info.xsize = X_MAX_DIM + 1
    /\ basic_info.alpha_bits > 0
    /\ HostFields = << 0, 0, FALSE >>

(***************************************************************************)
(* C34: the order in which save() drives the encoder.                      *)
(***************************************************************************)
\* the stage of the encoding a call of save() belongs to (0: none of them)
SaveStage(fn) ==
    CASE fn \in {"JxlEncoderSetFrameLossless", "JxlEncoderSetFrameDistance"} -> 1
      [] fn = "JxlEncoderFrameSettingsSetOption" -> 2
      [] fn = "JxlEncoderSetBasicInfo" -> 3
      [] fn = "JxlEncoderSetColorEncoding" -> 4
      [] fn = "JxlEncoderAddImageFrame" -> 5
      [] fn = "JxlEncoderCloseInput" -> 6
      [] fn \in {"JxlEncoderProcessOutput", "fwrite"} -> 7
      [] OTHER -> 0

\* C34: the calls save() makes come in the order quality setter, effort,
\* basic info, colour encoding, image frame, close input, output, each of
\* the first six at most once; the output loop is entered, and the sink is
\* written, only after the basic info and the colour encoding were set, one
\* frame was added and the input was closed, with the setters the tags ask
\* for; and when a call has failed, it is the last call save() made.
C34_EncoderDrivenInOrder ==
    call = "save" =>
      /\ \A i, j \in 1..Len(sv.calls) :
            (i < j /\ SaveStage(sv.calls[i]) > 0 /\ SaveStage(sv.calls[j]) > 0) =>
              /\ SaveStage(sv.calls[i]) <= SaveStage(sv.calls[j])
              /\ SaveStage(sv.calls[j]) < 7 =>
                    SaveStage(sv.calls[i]) < SaveStage(sv.calls[j])
      /\ (SaveCalled("JxlEncoderProcessOutput") \/ SaveCalled("fwrite")) =>
            /\ SaveCallCount("JxlEncoderSetBasicInfo") = 1
            /\ SaveCallCount("JxlEncoderSetColorEncoding") = 1
            /\ SaveCallCount("JxlEncoderAddImageFrame") = 1
            /\ SaveCallCount("JxlEncoderCloseInput") = 1
            /\ sv.quality.present =>
                  SaveCallCount("JxlEncoderSetFrameLossless")
                    + SaveCallCount("JxlEncoderSetFrameDistance") = 1
            /\ sv.compression.present =>
                  SaveCallCount("JxlEncoderFrameSettingsSetOption") = 1
      /\ sv.sink > 0 => SaveCalled("JxlEncoderCloseInput")
      /\ failed # {} =>
            /\ Returned
            /\ retval # "LOAD_SUCCESS"
            /\ failed = {Last(sv.calls)}

\* a lossless save with an effort that went through every stage and wrote
\* its output in two pieces
C34_Witness ==
    /\ call = "save"
    /\ Returned
    /\ retval = "LOAD_SUCCESS"
    /\ sv.lossless
    /\ sv.effort_set
    /\ sv.outputs = 2
    /\ Len(sv.written) = 2
====
